---- MODULE Spec2Model ----
(***************************************************************************)
(* A model of ponzi, a terminal dashboard of stock symbols x trading       *)
(* dates.  The module holds these sub-models over one set of variables:    *)
(*                                                                         *)
(*  - the ingestion pipeline of one history fetch (the provider's rows,     *)
(*    getTradingSessionsFromGoogle, convertTradingSessions): SpecConv;      *)
(*  - the board (stockData) with the refresh cycles of the timer goroutine  *)
(*    and of the UI thread and the structural edits of the key handlers,    *)
(*    every critical section of the board's lock being one step: Spec,      *)
(*    where the cycles of the two threads overlap, and SpecSeq, where a     *)
(*    cycle starts after the one before returned;                           *)
(*  - the same cycle and edits at the grain of single lock calls, channel   *)
(*    operations and field writes: SpecRun, and SpecRunFair with the        *)
(*    fairness of the scheduler and of the lock; SpecUI, the UI thread on   *)
(*    every board of a few rows, with one terminal event;                   *)
(*  - the render loop on terminals of several sizes: SpecFrame;             *)
(*  - the config file and the goroutines that save it: SpecSave, and        *)
(*    SpecLock, the threads at the fine grain with the save goroutines;    *)
(*  - the refresh goroutine with its two timers on a clock of minutes:     *)
(*    SpecTimer, and SpecTimerFair where time passes and timers fire;      *)
(*  - the dates over the timer's cycles on boards of several rows:         *)
(*    SpecDates;                                                           *)
(*  - the keys that read and write the input buffer: SpecInput and         *)
(*    SpecInputFair (Ctrl-R, Enter), SpecType (Backspace and characters);  *)
(*  - the two threads with the timer goroutine inside a call, full or      *)
(*    live-only, on a list of one row or none: SpecThreads, and            *)
(*    SpecThreadsFair with the fairness of SpecRunFair;                    *)
(*  - functions called on their own, the parsers of a live-quote response   *)
(*    (SpecQuote), the market-hours test (SpecHours), the colours of a     *)
(*    cell (SpecColor), the reader of a history response (SpecFetch), and  *)
(*    loadConfig and saveConfig on the config file (SpecConfig).           *)
(*                                                                         *)
(* Prices are integers (cents); a percentChange, which the program holds    *)
(* as a float64 quotient, is the pair of its numerator and denominator.     *)
(***************************************************************************)
EXTENDS Integers, Sequences, FiniteSets, TLC

VARIABLES
    \* ---- ingestion pipeline of one history fetch
    rows,           \* the sessions of the provider's response, in its order
    tss,            \* what getTradingSessionsFromGoogle returned
    sts,            \* what convertTradingSessions returned
    ipc,            \* position in the pipeline: "fetch", "convert", "done"
    \* ---- the board: stockData (src/ponzi.go:255-267), guarded by its RWMutex
    refreshTime,    \* sd.refreshTime: 0 is the zero time
    tradingDates,   \* sd.tradingDates
    stocks,         \* sd.stocks: rows of [symbol, tradingSessionMap]
    \* ---- locals of main, owned by the UI thread (src/ponzi.go:309-311)
    inputSymbol,
    selectedIndex,
    \* ---- one refreshStockData call per thread: its parameters and locals
    pc,             \* where each thread stands
    oneSymbol,      \* parameter oneSymbol
    onlyRealTimeData, \* parameter onlyRealTimeData
    symbols,        \* local symbols: the distinct symbols queued
    dates,          \* local dates (with tdm, its set)
    tsm,            \* local tsm: symbol -> date -> stockTradingSession
    rds,            \* the value received from rc
    \* ---- the same call at the grain of lock calls and channel operations
    writer,         \* the thread inside sd.Lock .. sd.Unlock, or "none"
    readers,        \* the threads inside sd.RLock .. sd.RUnlock
    scm,            \* local scm: per symbol, its channel and fetch goroutine
    rc,             \* local rc and the goroutine of the batch quote call
    ich,            \* local ich and the goroutine of the index quote call
    cur,            \* the symbol the loop over scm stands at, "" past its end
    im,             \* local im: 1 the quotes of the indices, 0 none
    got,            \* history: per channel, what this call received from it
    indices,        \* sd.dow, sd.sap, sd.nasdaq: 1 quoted, 0 the zero values
    stable,         \* history: the board when the write lock was last released
    events,         \* history: the timer firings and terminal events so far
    \* ---- the config file and the goroutines of saveStockData
    config,         \* the symbols of the config file, NoConfig when the
                    \* specification does not look at the file
    saves,          \* the cfg of every save goroutine that has not run yet
    logged,         \* whether a saveConfig error was logged
    \* ---- a function called on its own
    call,           \* the name of the function that was called, "" before
    arg,            \* its arguments
    ret,            \* what it returned
    \* ---- the terminal and the scroll position of the render loop
    symbolOffset,   \* the index of the first row drawn
    w,              \* the columns of the terminal
    h,              \* the lines of the terminal
    \* ---- the clock and the timers of the refresh goroutine
    clock,          \* time.Now(): the minute of the hour
    refreshDuration, \* local refreshDuration, in minutes
    waited,         \* the minutes since the select armed its timers
    loopAt          \* where the refresh goroutine stands in its loop

ingestVars == <<rows, tss, sts, ipc>>
boardVars == <<refreshTime, tradingDates, stocks>>
uiVars == <<inputSymbol, selectedIndex>>
cycleVars == <<pc, oneSymbol, onlyRealTimeData, symbols, dates, tsm, rds>>
lockVars == <<writer, readers>>
taskVars == <<scm, rc, ich>>
runVars == <<lockVars, taskVars, cur, im, got, indices, stable, events>>
callVars == <<call, arg, ret>>
sizeVars == <<w, h>>
clockVars == <<clock, refreshDuration, waited, loopAt>>
restVars == <<config, logged, callVars, sizeVars, clockVars>>
vars == <<ingestVars, boardVars, uiVars, cycleVars, runVars, saves, symbolOffset, restVars>>

(***************************************************************************)
(* Bounds of the ingestion pipeline.                                        *)
(***************************************************************************)
MaxLen == 3
MaxClose == 3
MaxDay == 3

Days == 1..MaxDay
Closes == 1..MaxClose

\* src/tradingsession.go:47 tradingSession, the fields convertTradingSessions
\* reads.  The volume of the model's sessions is a function of the close, so
\* that a session carried to another index shows.
tradingSession(d, c) == [date |-> d, close |-> c, volume |-> 10 * c]

TradingSessions == {tradingSession(d, c) : d \in Days, c \in Closes}

RECURSIVE SeqsUpTo(_, _)
SeqsUpTo(S, n) ==
    IF n = 0 THEN {<<>>}
    ELSE LET shorter == SeqsUpTo(S, n - 1)
         IN  shorter \cup {Append(s, x) : s \in {t \in shorter : Len(t) = n - 1}, x \in S}

Range(s) == {s[i] : i \in 1..Len(s)}

\* The float64 quotient n / d of two integers, d # 0: 0 when n = 0.
Quot(n, d) == IF n = 0 THEN [num |-> 0, den |-> 1] ELSE [num |-> n, den |-> d]

ZeroQuot == [num |-> 0, den |-> 1]

\* sort.Reverse(x) only wraps x in a sort.Interface whose Less is reversed;
\* nothing is sorted unless the wrapper is handed to sort.Sort.
sortReverse(s) == [data |-> s, reversed |-> TRUE]

\* src/tradingsession.go:102-176: the sessions are appended in the order of
\* the response's rows; the value of sort.Reverse is dropped.
getTradingSessionsFromGoogle(rs) ==
    LET dropped == sortReverse(rs)
    IN  rs

\* src/ponzi.go:706-725
convertTradingSessions_x100(s) ==
    [i \in 1..Len(s) |->
        LET change == IF i + 1 <= Len(s) THEN s[i].close - s[i + 1].close ELSE 0
        IN  [date |-> s[i].date, close |-> s[i].close, volume |-> s[i].volume,
             change |-> change,
             percentChange |-> IF i + 1 <= Len(s)
                               THEN Quot(100 * change, s[i + 1].close)
                               ELSE ZeroQuot]]

convertTradingSessions(s) ==
    [i \in 1..Len(s) |->
        LET change == IF i + 1 <= Len(s) THEN s[i].close - s[i + 1].close ELSE 0
        IN  [date |-> s[i].date, close |-> s[i].close, volume |-> s[i].volume,
             change |-> change,
             percentChange |-> IF i + 1 <= Len(s)
                               THEN Quot(change, s[i + 1].close)
                               ELSE ZeroQuot]]

(***************************************************************************)
(* The threads that call refreshStockData, the tickers the user types, the  *)
(* bounds of the board.                                                     *)
(***************************************************************************)
Procs == {"timer", "ui"}
Symbols == {"A", "B"}
MaxStocks == 1

\* A nil or empty map[time.Time]stockTradingSession.
NoMap == <<>>

\* The value of config in the specifications that do not look at the config
\* file: no list of tickers, which are not empty.
NoConfig == <<"">>

\* The save goroutines that can wait at a time.
MaxSaves == 2

\* No function is called on its own.
CallAtRest ==
    /\ call = ""
    /\ arg = <<>>
    /\ ret = <<>>

\* The clock is not looked at.
ClockAtRest ==
    /\ clock = 0
    /\ refreshDuration = 0
    /\ waited = 0
    /\ loopAt = "boot"

\* The terminal keeps its size and the first row is the first drawn.
ViewAtRest ==
    /\ symbolOffset = 0
    /\ w = 80
    /\ h = 24

\* The config file is not looked at.
SaveAtRest ==
    /\ config = NoConfig
    /\ saves = <<>>
    /\ logged = FALSE

\* The state of a thread that is not inside refreshStockData.
NoCycle ==
    /\ oneSymbol = [p \in Procs |-> ""]
    /\ onlyRealTimeData = [p \in Procs |-> FALSE]
    /\ symbols = [p \in Procs |-> <<>>]
    /\ dates = [p \in Procs |-> <<>>]
    /\ tsm = [p \in Procs |-> [s \in Symbols |-> NoMap]]
    /\ rds = [p \in Procs |-> <<>>]

Channels == Symbols \cup {"rc", "ich"}

\* The lock free, no fetch goroutine, the locals of the fine-grained call unset.
RunAtRest ==
    /\ writer = "none"
    /\ readers = {}
    /\ scm = [p \in Procs |-> [s \in Symbols |-> "off"]]
    /\ rc = [p \in Procs |-> "off"]
    /\ ich = [p \in Procs |-> "off"]
    /\ cur = [p \in Procs |-> ""]
    /\ im = [p \in Procs |-> 0]
    /\ got = [p \in Procs |-> [c \in Channels |-> <<>>]]
    /\ indices = 0
    /\ stable = <<>>
    /\ events = 0

\* The board and the threads while only the ingestion pipeline is looked at.
ProgramAtRest ==
    /\ refreshTime = 0
    /\ tradingDates = <<>>
    /\ stocks = <<>>
    /\ inputSymbol = ""
    /\ selectedIndex = 0
    /\ pc = [p \in Procs |-> "idle"]
    /\ NoCycle
    /\ RunAtRest
    /\ SaveAtRest
    /\ ViewAtRest

BoardAtRest ==
    /\ ProgramAtRest
    /\ CallAtRest

\* The ingestion pipeline while only the board is looked at.
IngestAtRest ==
    /\ rows = <<>>
    /\ tss = <<>>
    /\ sts = <<>>
    /\ ipc = "done"

InitConv ==
    /\ BoardAtRest
    /\ rows \in SeqsUpTo(TradingSessions, MaxLen)
    /\ tss = <<>>
    /\ sts = <<>>
    /\ ipc = "fetch"
    /\ ClockAtRest

\* The fetch goroutine of src/ponzi.go:602-608: tss, err := getTradingSessions(...)
FetchHistory ==
    /\ ipc = "fetch"
    /\ tss' = getTradingSessionsFromGoogle(rows)
    /\ ipc' = "convert"
    /\ UNCHANGED <<rows, sts, boardVars, uiVars, cycleVars, runVars, saves, symbolOffset, restVars>>

\* src/ponzi.go:658: convertTradingSessions(<-ch)
ConvertHistory ==
    /\ ipc = "convert"
    /\ sts' = convertTradingSessions(tss)
    /\ ipc' = "done"
    /\ UNCHANGED <<rows, tss, boardVars, uiVars, cycleVars, runVars, saves, symbolOffset, restVars>>

NextConv == FetchHistory \/ ConvertHistory

SpecConv == InitConv /\ [][NextConv]_vars

(***************************************************************************)
(* Claims about the ingestion pipeline.                                     *)
(***************************************************************************)

\* C9: convertTradingSessions keeps the length and the order of its input
\* (date, close and volume of every index); for every index i with a next
\* index, change[i] = close[i] - close[i+1] and percentChange[i] is the
\* fraction change[i] / close[i+1]; for the last index both are exactly 0; an
\* empty input gives an empty result.
C9_ConvertComputesChanges ==
    ipc = "done" =>
        /\ Len(sts) = Len(tss)
        /\ tss = <<>> => sts = <<>>
        /\ \A i \in 1..Len(tss) :
            /\ sts[i].date = tss[i].date
            /\ sts[i].close = tss[i].close
            /\ sts[i].volume = tss[i].volume
            /\ i + 1 <= Len(tss) =>
                /\ sts[i].change = tss[i].close - tss[i + 1].close
                /\ sts[i].percentChange.den # 0
                /\ sts[i].percentChange.num * tss[i + 1].close
                       = sts[i].change * sts[i].percentChange.den
            /\ i = Len(tss) =>
                /\ sts[i].change = 0
                /\ sts[i].percentChange = ZeroQuot

\* A conversion of three sessions of which the first two closed differently.
C9_Witness ==
    /\ ipc = "done"
    /\ Len(sts) = 3
    /\ sts[1].change # 0
    /\ sts[2].change # 0

\* The rows of a response are in date order, oldest first or newest first.
OldestFirst(s) == \A i \in 1..(Len(s) - 1) : s[i].date < s[i + 1].date
NewestFirst(s) == \A i \in 1..(Len(s) - 1) : s[i].date > s[i + 1].date

\* C10: whichever of the two orders the provider's rows come in, after
\* ingestion the session of the earliest date has change = percentChange = 0
\* and every other session's change is its close minus the close of the
\* session of the date just before it in the fetch.
C10_EitherOrderNormalized ==
    (ipc = "done" /\ (OldestFirst(rows) \/ NewestFirst(rows))) =>
        \A i \in 1..Len(sts) :
            LET earlier == {j \in 1..Len(sts) : sts[j].date < sts[i].date}
            IN  IF earlier = {}
                THEN sts[i].change = 0 /\ sts[i].percentChange = ZeroQuot
                ELSE LET j == CHOOSE k \in earlier :
                                \A l \in earlier : sts[l].date <= sts[k].date
                     IN  sts[i].change = sts[i].close - sts[j].close

(***************************************************************************)
(* The board.  Times are hours since an epoch: a date is the midnight of a  *)
(* day, 24 * day; the timestamp of a live quote is an hour of a day.        *)
(***************************************************************************)
DateOf(day) == 24 * day
BoardDates == {DateOf(1), DateOf(2)}
QuoteHours == {15}

\* src/ponzi.go:673: time.Date(year, month, day, 0, 0, 0, 0, location)
midnight(t) == t - (t % 24)

\* src/ponzi.go:269-272
stock(sym, m) == [symbol |-> sym, tradingSessionMap |-> m]

SymbolsOf(ss) == [i \in 1..Len(ss) |-> ss[i].symbol]

\* src/ponzi.go:727-739 saveStockData: cfg is built from the rows ss, and a
\* goroutine is launched that will call saveConfig(cfg).
saveStockData(ss) ==
    IF config = NoConfig THEN UNCHANGED saves
    ELSE /\ Len(saves) < MaxSaves
         /\ saves' = Append(saves, SymbolsOf(ss))

\* The close of the sampled history responses on date d: it rises by one a day.
closeOn(d) == d \div 24

\* What a history task sends on its channel: the sessions of the response,
\* most recent first as both providers list them, or nil (an error, an empty
\* response, or the closed channel of a cycle with onlyRealTimeData).
HistoryResponses ==
    {r \in SeqsUpTo({tradingSession(d, closeOn(d)) : d \in BoardDates},
                    Cardinality(BoardDates)) :
        NewestFirst(r)}

\* realTimeTradingData of one symbol (src/ponzi.go:672-676 reads symbol,
\* timestamp, price, change, percentChange).
realTimeTradingData(sym, t) ==
    [symbol |-> sym, timestamp |-> t, price |-> 3, change |-> 1,
     percentChange |-> Quot(1, 2)]

\* addDate without the test of tdm.
addDate_always(ds, d) == Append(ds, d)

\* src/ponzi.go:640-645 addDate: tdm is the set of the elements of dates.
addDate(ds, d) == IF d \in Range(ds) THEN ds ELSE Append(ds, d)

RECURSIVE addDates(_, _)
addDates(ds, new) ==
    IF new = <<>> THEN ds ELSE addDates(addDate(ds, Head(new)), Tail(new))

\* queueRequest without the test for a symbol already in scm.
queueRequests_noCheck(syms, new) == syms \o new

\* src/ponzi.go:586-609 queueRequest, for each row in turn: a symbol already
\* in scm is not queued again.
RECURSIVE queueRequests(_, _)
queueRequests(syms, new) ==
    IF new = <<>> THEN syms
    ELSE queueRequests(IF Head(new) \in Range(syms) THEN syms ELSE Append(syms, Head(new)),
                       Tail(new))

\* src/ponzi.go:689 sort.Sort(dates), with sortableTimes.Less = Before.
RECURSIVE sortDates(_)
sortDates(ds) ==
    IF Len(ds) <= 1 THEN ds
    ELSE LET i == CHOOSE k \in 1..Len(ds) :
                    \A j \in 1..Len(ds) : ds[k] < ds[j] \/ (ds[k] = ds[j] /\ k <= j)
             rest == [j \in 1..(Len(ds) - 1) |-> IF j < i THEN ds[j] ELSE ds[j + 1]]
         IN  <<ds[i]>> \o sortDates(rest)

\* src/ponzi.go:658-664, one symbol: tsm[symbol][ts.date] = ts for each
\* converted session in turn.
MapOf(ss) ==
    [d \in {ss[i].date : i \in 1..Len(ss)} |->
        ss[CHOOSE i \in 1..Len(ss) :
              ss[i].date = d /\ \A j \in 1..Len(ss) : ss[j].date = d => j <= i]]

SessionDates(ss) == [i \in 1..Len(ss) |-> ss[i].date]

\* src/ponzi.go:656-665: the channels of scm are read in the order `order`
\* (the order of a map iteration), resp[s] being what symbol s's channel gave.
RECURSIVE historyDates(_, _, _)
historyDates(ds, order, resp) ==
    IF order = <<>> THEN ds
    ELSE historyDates(
            addDates(ds, SessionDates(convertTradingSessions(resp[Head(order)]))),
            Tail(order), resp)

\* src/ponzi.go:672-677
liveSession(rd) ==
    [date |-> midnight(rd.timestamp), close |-> rd.price, volume |-> 0,
     change |-> rd.change, percentChange |-> rd.percentChange]

\* src/ponzi.go:679-685: the session of a quote is stored only when tsm has no
\* session of that symbol and date yet.
mergeQuote_overwrite(m, rd) ==
    LET ts == liveSession(rd)
    IN  [m EXCEPT ![rd.symbol] =
            [d \in DOMAIN @ \cup {ts.date} |-> IF d = ts.date THEN ts ELSE @[d]]]

mergeQuote(m, rd) ==
    LET ts == liveSession(rd)
    IN  IF ts.date \in DOMAIN m[rd.symbol] THEN m
        ELSE [m EXCEPT ![rd.symbol] =
                [d \in DOMAIN @ \cup {ts.date} |-> IF d = ts.date THEN ts ELSE @[d]]]

\* src/ponzi.go:668-686: the loop over the quotes; a record of tsm and dates.
RECURSIVE mergeQuotes(_, _, _)
mergeQuotes(m, ds, quotes) ==
    IF quotes = <<>> THEN [tsm |-> m, dates |-> ds]
    ELSE LET rd == Head(quotes)
             d == midnight(rd.timestamp)
         IN  mergeQuotes(mergeQuote(m, rd),
                         IF d \in DOMAIN m[rd.symbol] THEN ds ELSE addDate(ds, d),
                         Tail(quotes))

\* src/ponzi.go:699-701: the entries of new are written into old.
mergeMap_replace(old, new) == new

mergeMap(old, new) ==
    [d \in DOMAIN old \cup DOMAIN new |-> IF d \in DOMAIN new THEN new[d] ELSE old[d]]

\* The orders in which a map with the keys S can be iterated.
Orders(S) ==
    {o \in [1..Cardinality(S) -> S] : \A i, j \in 1..Cardinality(S) : o[i] = o[j] => i = j}

\* The timestamps a quote of the sampled responses can carry.
QuoteTimes == {d + hour : d \in BoardDates, hour \in QuoteHours}

\* The sub-sequence of the queued symbols that a live response quotes.
RECURSIVE Quotes(_, _)
Quotes(syms, when) ==
    IF syms = <<>> THEN <<>>
    ELSE (IF Head(syms) \in DOMAIN when
          THEN <<realTimeTradingData(Head(syms), when[Head(syms)])>>
          ELSE <<>>) \o Quotes(Tail(syms), when)

\* src/ponzi.go:297-311: the rows of the config, no data, no selection.
Init ==
    /\ IngestAtRest
    /\ refreshTime = 0
    /\ tradingDates = <<>>
    /\ stocks \in {[i \in 1..Len(cfg) |-> stock(cfg[i], NoMap)] :
                      cfg \in SeqsUpTo(Symbols, MaxStocks)}
    /\ inputSymbol = ""
    /\ selectedIndex = 0
    /\ pc = [p \in Procs |-> IF p = "timer" THEN "boot" ELSE "idle"]
    /\ NoCycle
    /\ RunAtRest
    /\ SaveAtRest
    /\ ViewAtRest
    /\ CallAtRest
    /\ ClockAtRest

\* src/ponzi.go:575-620: the call of refreshStockData up to the launch of the
\* fetches; the rows are read under the read lock.
StartCycle(p, one, live) ==
    /\ pc' = [pc EXCEPT ![p] = "queued"]
    /\ oneSymbol' = [oneSymbol EXCEPT ![p] = one]
    /\ onlyRealTimeData' = [onlyRealTimeData EXCEPT ![p] = live]
    /\ symbols' = [symbols EXCEPT ![p] =
            IF one # "" THEN <<one>> ELSE queueRequests(<<>>, SymbolsOf(stocks))]
    /\ UNCHANGED <<dates, tsm, rds, ingestVars, saves, symbolOffset, restVars, runVars, boardVars, uiVars>>

\* src/ponzi.go:327-344: refresh(), at the start and when the hour timer fires.
TimerRefresh ==
    /\ pc["timer"] \in {"boot", "idle"}
    /\ StartCycle("timer", "", FALSE)

\* src/ponzi.go:346-350: the five-minute timer fires during market hours.
TimerLive ==
    /\ pc["timer"] = "idle"
    /\ StartCycle("timer", "", TRUE)

\* src/ponzi.go:501-502
KeyCtrlR ==
    /\ pc["ui"] = "idle"
    /\ StartCycle("ui", "", FALSE)

\* src/ponzi.go:547-548: refreshStockData(sd, inputSymbol, false) after the insert.
EnterRefresh ==
    /\ pc["ui"] = "enter"
    /\ StartCycle("ui", inputSymbol, FALSE)

\* src/ponzi.go:647-652: the previous dates are read under the read lock.
ReadPrevDates_skip(p) ==
    /\ pc[p] = "queued"
    /\ pc' = [pc EXCEPT ![p] = "read"]
    /\ UNCHANGED <<dates, oneSymbol, onlyRealTimeData, symbols, tsm, rds,
                   ingestVars, saves, symbolOffset, restVars, runVars, boardVars, uiVars>>

ReadPrevDates(p) ==
    /\ pc[p] = "queued"
    /\ pc' = [pc EXCEPT ![p] = "read"]
    /\ dates' = [dates EXCEPT ![p] = addDates(<<>>, tradingDates)]
    /\ UNCHANGED <<oneSymbol, onlyRealTimeData, symbols, tsm, rds,
                   ingestVars, saves, symbolOffset, restVars, runVars, boardVars, uiVars>>

\* src/ponzi.go:654-665: one value is received from every channel of scm.
GatherHistory(p) ==
    /\ pc[p] = "read"
    /\ \E resp \in [Range(symbols[p]) ->
                        IF onlyRealTimeData[p] THEN {<<>>} ELSE HistoryResponses] :
       \E order \in Orders(Range(symbols[p])) :
        /\ tsm' = [tsm EXCEPT ![p] =
                [s \in Symbols |->
                    IF s \in Range(symbols[p])
                    THEN MapOf(convertTradingSessions(resp[s])) ELSE NoMap]]
        /\ dates' = [dates EXCEPT ![p] = historyDates(@, order, resp)]
    /\ pc' = [pc EXCEPT ![p] = "history"]
    /\ UNCHANGED <<oneSymbol, onlyRealTimeData, symbols, rds,
                   ingestVars, saves, symbolOffset, restVars, runVars, boardVars, uiVars>>

\* src/ponzi.go:667-689: the value of rc is received (nil when the batch call
\* failed or no symbol is queued), its quotes are merged, the dates sorted.
GatherLive(p) ==
    /\ pc[p] = "history"
    /\ \E quoted \in SUBSET Range(symbols[p]) :
       \E when \in [quoted -> QuoteTimes] :
        LET quotes == Quotes(symbols[p], when)
            merged == mergeQuotes(tsm[p], dates[p], quotes)
        IN  /\ rds' = [rds EXCEPT ![p] = quotes]
            /\ tsm' = [tsm EXCEPT ![p] = merged.tsm]
            /\ dates' = [dates EXCEPT ![p] = sortDates(merged.dates)]
    /\ pc' = [pc EXCEPT ![p] = "gathered"]
    /\ UNCHANGED <<oneSymbol, onlyRealTimeData, symbols,
                   ingestVars, saves, symbolOffset, restVars, runVars, boardVars, uiVars>>

\* src/ponzi.go:691-703: the commit, under the write lock.
Commit(p) ==
    /\ pc[p] = "gathered"
    /\ refreshTime' = 1
    /\ tradingDates' = dates[p]
    /\ stocks' = [i \in 1..Len(stocks) |->
            stock(stocks[i].symbol,
                  mergeMap(stocks[i].tradingSessionMap, tsm[p][stocks[i].symbol]))]
    /\ pc' = [pc EXCEPT ![p] = "done"]
    /\ UNCHANGED <<oneSymbol, onlyRealTimeData, symbols, dates, tsm, rds,
                   ingestVars, saves, symbolOffset, restVars, runVars, uiVars>>

\* src/ponzi.go:704: refreshStockData returns; after Enter the caller then
\* empties the buffer (line 549).
Return(p) ==
    /\ pc[p] = "done"
    /\ pc' = [pc EXCEPT ![p] = "idle"]
    /\ inputSymbol' = IF p = "ui" /\ oneSymbol[p] # "" THEN "" ELSE inputSymbol
    /\ oneSymbol' = [oneSymbol EXCEPT ![p] = ""]
    /\ onlyRealTimeData' = [onlyRealTimeData EXCEPT ![p] = FALSE]
    /\ symbols' = [symbols EXCEPT ![p] = <<>>]
    /\ dates' = [dates EXCEPT ![p] = <<>>]
    /\ tsm' = [tsm EXCEPT ![p] = [s \in Symbols |-> NoMap]]
    /\ rds' = [rds EXCEPT ![p] = <<>>]
    /\ UNCHANGED <<selectedIndex, ingestVars, saves, symbolOffset, restVars, runVars, boardVars>>

\* src/ponzi.go:512-513, 527-528
swapRows_symbolsOnly(ss, i, j) ==
    [k \in 1..Len(ss) |->
        IF k = i THEN stock(ss[j].symbol, ss[i].tradingSessionMap)
        ELSE IF k = j THEN stock(ss[i].symbol, ss[j].tradingSessionMap)
        ELSE ss[k]]

swapRows(ss, i, j) ==
    [k \in 1..Len(ss) |-> IF k = i THEN ss[j] ELSE IF k = j THEN ss[i] ELSE ss[k]]

\* src/ponzi.go:505-518; selectedIndex counts from 0, the rows from 1.
KeyArrowUp(alt) ==
    /\ pc["ui"] = "idle"
    /\ Len(stocks) > 0
    /\ LET swapIndex == IF selectedIndex - 1 < 0 THEN Len(stocks) - 1
                        ELSE selectedIndex - 1
       IN  /\ stocks' = IF alt THEN swapRows(stocks, selectedIndex + 1, swapIndex + 1)
                        ELSE stocks
           /\ selectedIndex' = swapIndex
    /\ IF alt THEN saveStockData(stocks') ELSE UNCHANGED saves
    /\ UNCHANGED <<refreshTime, tradingDates, inputSymbol, ingestVars, symbolOffset, restVars, runVars, cycleVars>>

\* src/ponzi.go:520-533
KeyArrowDown(alt) ==
    /\ pc["ui"] = "idle"
    /\ Len(stocks) > 0
    /\ LET swapIndex == IF selectedIndex + 1 = Len(stocks) THEN 0
                        ELSE selectedIndex + 1
       IN  /\ stocks' = IF alt THEN swapRows(stocks, selectedIndex + 1, swapIndex + 1)
                        ELSE stocks
           /\ selectedIndex' = swapIndex
    /\ IF alt THEN saveStockData(stocks') ELSE UNCHANGED saves
    /\ UNCHANGED <<refreshTime, tradingDates, inputSymbol, ingestVars, symbolOffset, restVars, runVars, cycleVars>>

\* src/ponzi.go:539-542: append a blank row, shift the rows from the selected
\* index on by one, write the new row into the slot.
insertRow(ss, at, sym) ==
    LET grown == Append(ss, stock("", NoMap))
        shifted == [k \in 1..Len(grown) |-> IF k > at + 1 THEN grown[k - 1] ELSE grown[k]]
    IN  [shifted EXCEPT ![at + 1] = stock(sym, NoMap)]

\* src/ponzi.go:568-569, then 535-546: the printable keys that leave the
\* ticker s in the buffer, then Enter, up to the unlock.
KeyEnter(s) ==
    /\ pc["ui"] = "idle"
    /\ Len(stocks) < MaxStocks
    /\ inputSymbol' = s
    /\ stocks' = insertRow(stocks, selectedIndex, s)
    /\ pc' = [pc EXCEPT !["ui"] = "enter"]
    /\ saveStockData(stocks')
    /\ UNCHANGED <<refreshTime, tradingDates, selectedIndex, ingestVars, symbolOffset, restVars, runVars,
                   oneSymbol, onlyRealTimeData, symbols, dates, tsm, rds>>

\* src/ponzi.go:555
deleteRow(ss, at) ==
    [k \in 1..(Len(ss) - 1) |-> IF k < at + 1 THEN ss[k] ELSE ss[k + 1]]

\* src/ponzi.go:552-561
KeyDelete ==
    /\ pc["ui"] = "idle"
    /\ Len(stocks) > 0
    /\ stocks' = deleteRow(stocks, selectedIndex)
    /\ selectedIndex' = IF selectedIndex - 1 >= 0 THEN selectedIndex - 1 ELSE selectedIndex
    /\ saveStockData(stocks')
    /\ UNCHANGED <<refreshTime, tradingDates, inputSymbol, ingestVars, symbolOffset, restVars, runVars, cycleVars>>

Starts == TimerRefresh \/ TimerLive \/ KeyCtrlR \/ EnterRefresh

CycleSteps ==
    \E p \in Procs :
        ReadPrevDates(p) \/ GatherHistory(p) \/ GatherLive(p) \/ Commit(p) \/ Return(p)

Keys ==
    \/ \E alt \in BOOLEAN : KeyArrowUp(alt) \/ KeyArrowDown(alt)
    \/ \E s \in Symbols : KeyEnter(s)
    \/ KeyDelete

\* The timer goroutine and the UI thread, their cycles overlapping freely.
Next == Starts \/ CycleSteps \/ Keys

Spec == Init /\ [][Next]_vars

\* No thread is inside refreshStockData.
NoCycleRunning == \A p \in Procs : pc[p] \in {"boot", "idle", "enter"}

\* The same threads when a cycle starts only after the one before returned.
NextSeq == (NoCycleRunning /\ Starts) \/ CycleSteps \/ Keys

SpecSeq == Init /\ [][NextSeq]_vars

(***************************************************************************)
(* Claims about the board.                                                  *)
(***************************************************************************)

\* The entry of row i of the rows ss for date d: the set of the one session
\* the map of the row has for d, empty when it has none.
Entry(ss, i, d) ==
    IF d \in DOMAIN ss[i].tradingSessionMap THEN {ss[i].tradingSessionMap[d]} ELSE {}

\* Thread p commits in this step.
Commits(p) == pc[p] = "gathered" /\ pc'[p] = "done"

\* C1: when the refresh cycles run one after another, whatever fetches fail
\* and whatever structural edits come in between, no step (no commit, no
\* delete, no other edit) takes a date out of the global date set.
C1_DatesNeverShrink == [][Range(tradingDates) \subseteq Range(tradingDates')]_vars

\* A cycle all of whose fetches failed has committed and the only row was
\* deleted; both dates of earlier cycles are still there.
C1_Witness ==
    \E p \in Procs :
        /\ pc[p] = "done"
        /\ symbols[p] # <<>>
        /\ \A s \in Symbols : DOMAIN tsm[p][s] = {}
        /\ stocks = <<>>
        /\ Range(tradingDates) = BoardDates

\* C2: when cycles overlap, the commit of a cycle never removes a date from
\* the global date set, in particular not one that the other cycle added
\* after this one had read the previous dates.
C2_OverlapKeepsDates ==
    [][\A p \in Procs :
          Commits(p) => Range(tradingDates) \subseteq Range(tradingDates')]_vars

\* C3: in every reachable state every date that is a key of a row's map is in
\* the global date set.
C3_RowDatesAreKnown ==
    \A i \in 1..Len(stocks) :
        DOMAIN stocks[i].tradingSessionMap \subseteq Range(tradingDates)

\* C4: within one cycle, when the history of a symbol has a session for the
\* date of the symbol's live quote, merging the quote leaves that session in
\* tsm, and the commit writes the sessions of tsm into the rows of the symbol:
\* the committed entry is the historical one.
C4_HistoryWins ==
    [][\A p \in Procs :
          /\ (pc[p] = "history" /\ pc'[p] = "gathered") =>
                \A k \in 1..Len(rds'[p]) :
                    LET rd == rds'[p][k]
                        d == midnight(rd.timestamp)
                    IN  d \in DOMAIN tsm[p][rd.symbol] =>
                            /\ d \in DOMAIN tsm'[p][rd.symbol]
                            /\ tsm'[p][rd.symbol][d] = tsm[p][rd.symbol][d]
          /\ Commits(p) =>
                \A i \in 1..Len(stocks) : \A d \in DOMAIN tsm[p][stocks[i].symbol] :
                    Entry(stocks', i, d) = {tsm[p][stocks[i].symbol][d]}]_vars

\* A cycle has committed, for a row of a symbol whose live quote fell on a date
\* of its history, the session of the history (the sampled histories have a
\* volume, the session of a quote has none).
C4_Witness ==
    \E p \in Procs : \E k \in 1..Len(rds[p]) : \E i \in 1..Len(stocks) :
        LET d == midnight(rds[p][k].timestamp)
        IN  /\ pc[p] = "done"
            /\ rds[p][k].symbol = stocks[i].symbol
            /\ d \in DOMAIN tsm[p][stocks[i].symbol]
            /\ tsm[p][stocks[i].symbol][d].volume # 0
            /\ Entry(stocks, i, d) = {tsm[p][stocks[i].symbol][d]}

\* C6: a commit keeps the rows and their symbols, and changes the entry of a
\* row for a date only if this cycle fetched a session for the row's symbol
\* and that date; so when every fetch for a symbol failed, the entries of its
\* rows are as they were.
C6_CommitOnlyWritesFetched ==
    [][\A p \in Procs :
          Commits(p) =>
            /\ SymbolsOf(stocks') = SymbolsOf(stocks)
            /\ \A i \in 1..Len(stocks) : \A d \in BoardDates :
                Entry(stocks', i, d) # Entry(stocks, i, d) =>
                    d \in DOMAIN tsm[p][stocks[i].symbol]]_vars

\* A cycle that queued the symbol of a row and got nothing for it has
\* committed, and the row holds sessions of an earlier cycle for both dates.
C6_Witness ==
    \E p \in Procs : \E i \in 1..Len(stocks) :
        /\ pc[p] = "done"
        /\ stocks[i].symbol \in Range(symbols[p])
        /\ DOMAIN tsm[p][stocks[i].symbol] = {}
        /\ DOMAIN stocks[i].tradingSessionMap = BoardDates

(***************************************************************************)
(* The same threads at the grain of single lock calls, channel operations   *)
(* and field writes.  The call is src/ponzi.go:575-704 with the index leg   *)
(* of the variant src/unnamed/part_002:763-771, 820, 837-839.  A step that  *)
(* only touches locals is taken together with the shared step before it;    *)
(* the return of a fetch in its goroutine is taken together with the send   *)
(* that follows it, and a send on an unbuffered channel with its receive.   *)
(***************************************************************************)
MaxEvents == 1

\* A history response that succeeded: both dates, most recent first.
sampleHistory ==
    <<tradingSession(DateOf(2), closeOn(DateOf(2))),
      tradingSession(DateOf(1), closeOn(DateOf(1)))>>

\* A batch quote response that succeeded: every queued symbol, quoted in the
\* afternoon of the later date.
sampleQuotes(syms) ==
    [i \in 1..Len(syms) |-> realTimeTradingData(syms[i], DateOf(2) + 15)]

board == <<refreshTime, tradingDates, stocks, indices>>

\* sync.RWMutex: RLock returns when no writer holds the lock, Lock when nobody
\* holds it.
CanRLock_always == TRUE

CanRLock == writer = "none"

CanLock == writer = "none" /\ readers = {}

\* src/ponzi.go:297-311, 337-338, 355: the board of a config with one row; the
\* timer goroutine is about to do its first refresh, the UI thread to render.
InitRun ==
    /\ IngestAtRest
    /\ refreshTime = 0
    /\ tradingDates = <<>>
    /\ stocks = <<stock("A", NoMap)>>
    /\ inputSymbol = ""
    /\ selectedIndex = 0
    /\ pc = [p \in Procs |-> IF p = "timer" THEN "boot" ELSE "render"]
    /\ NoCycle
    /\ writer = "none"
    /\ readers = {}
    /\ scm = [p \in Procs |-> [s \in Symbols |-> "off"]]
    /\ rc = [p \in Procs |-> "off"]
    /\ ich = [p \in Procs |-> "off"]
    /\ cur = [p \in Procs |-> ""]
    /\ im = [p \in Procs |-> 0]
    /\ got = [p \in Procs |-> [c \in Channels |-> <<>>]]
    /\ indices = 0
    /\ stable = board
    /\ events = 0
    /\ SaveAtRest
    /\ ViewAtRest
    /\ CallAtRest
    /\ ClockAtRest

\* src/ponzi.go:575: refreshStockData(sd, one, live) is called by thread p.
Call(p, one, live) ==
    /\ pc' = [pc EXCEPT ![p] = "call"]
    /\ oneSymbol' = [oneSymbol EXCEPT ![p] = one]
    /\ onlyRealTimeData' = [onlyRealTimeData EXCEPT ![p] = live]

\* Launch with the history channels of a live-only call neither fed nor
\* closed.
Launch_unfed(p, syms) ==
    /\ symbols' = [symbols EXCEPT ![p] = syms]
    /\ scm' = [scm EXCEPT ![p] =
            [s \in Symbols |->
                IF s \notin Range(syms) THEN "off"
                ELSE IF onlyRealTimeData[p] THEN "open" ELSE "fetching"]]
    /\ rc' = [rc EXCEPT ![p] = IF Len(syms) > 0 THEN "fetching" ELSE "closed"]
    /\ ich' = [ich EXCEPT ![p] = "fetching"]

\* src/ponzi.go:595-608, 623-633 and part_002:763-771: the channels made and
\* the goroutines launched for the queued symbols syms.
Launch(p, syms) ==
    /\ symbols' = [symbols EXCEPT ![p] = syms]
    /\ scm' = [scm EXCEPT ![p] =
            [s \in Symbols |->
                IF s \notin Range(syms) THEN "off"
                ELSE IF onlyRealTimeData[p] THEN "closed" ELSE "fetching"]]
    /\ rc' = [rc EXCEPT ![p] = IF Len(syms) > 0 THEN "fetching" ELSE "closed"]
    /\ ich' = [ich EXCEPT ![p] = "fetching"]

\* src/ponzi.go:337-338: the initial refresh().
RunBoot ==
    /\ pc["timer"] = "boot"
    /\ Call("timer", "", FALSE)
    /\ UNCHANGED <<symbols, dates, tsm, rds, ingestVars, saves, symbolOffset, restVars, boardVars, uiVars, runVars>>

\* src/ponzi.go:343-344: the hour timer fires, refresh().
RunTimerRefresh ==
    /\ pc["timer"] = "idle"
    /\ Call("timer", "", FALSE)
    /\ events < MaxEvents
    /\ events' = events + 1
    /\ UNCHANGED <<symbols, dates, tsm, rds, ingestVars, saves, symbolOffset, restVars, boardVars, uiVars, lockVars, taskVars, cur, im, got,
                   indices, stable>>

\* src/ponzi.go:346-348
RunTimerLive ==
    /\ pc["timer"] = "idle"
    /\ Call("timer", "", TRUE)
    /\ events < MaxEvents
    /\ events' = events + 1
    /\ UNCHANGED <<symbols, dates, tsm, rds, ingestVars, saves, symbolOffset, restVars, boardVars, uiVars, lockVars, taskVars, cur, im, got,
                   indices, stable>>

\* src/ponzi.go:495, 501-502
RunKeyCtrlR ==
    /\ pc["ui"] = "poll"
    /\ Call("ui", "", FALSE)
    /\ events < MaxEvents
    /\ events' = events + 1
    /\ UNCHANGED <<symbols, dates, tsm, rds, ingestVars, saves, symbolOffset, restVars, boardVars, uiVars, lockVars, taskVars, cur, im, got,
                   indices, stable>>

\* The call for one symbol that queues every row, as the call for all does.
QueueOne_all(p) ==
    /\ pc[p] = "call"
    /\ oneSymbol[p] # ""
    /\ Launch(p, queueRequests(<<oneSymbol[p]>>, SymbolsOf(stocks)))
    /\ pc' = [pc EXCEPT ![p] = "rlockDates"]
    /\ UNCHANGED <<oneSymbol, onlyRealTimeData, dates, tsm, rds, ingestVars, saves, symbolOffset, restVars,
                   boardVars, uiVars, lockVars, cur, im, got, indices, stable,
                   events>>

\* src/ponzi.go:612-613: queueRequest(oneSymbol), then the launches.
QueueOne(p) ==
    /\ pc[p] = "call"
    /\ oneSymbol[p] # ""
    /\ Launch(p, <<oneSymbol[p]>>)
    /\ pc' = [pc EXCEPT ![p] = "rlockDates"]
    /\ UNCHANGED <<oneSymbol, onlyRealTimeData, dates, tsm, rds, ingestVars, saves, symbolOffset, restVars,
                   boardVars, uiVars, lockVars, cur, im, got, indices, stable,
                   events>>

\* src/ponzi.go:615
RLockSymbols(p) ==
    /\ pc[p] = "call"
    /\ oneSymbol[p] = ""
    /\ CanRLock
    /\ readers' = readers \cup {p}
    /\ pc' = [pc EXCEPT ![p] = "symbols"]
    /\ UNCHANGED <<oneSymbol, onlyRealTimeData, symbols, dates, tsm, rds, ingestVars, saves, symbolOffset, restVars,
                   boardVars, uiVars, writer, taskVars, cur, im, got, indices, stable,
                   events>>

\* src/ponzi.go:616-619, then the launches.
QueueAll(p) ==
    /\ pc[p] = "symbols"
    /\ Launch(p, queueRequests(<<>>, SymbolsOf(stocks)))
    /\ readers' = readers \ {p}
    /\ pc' = [pc EXCEPT ![p] = "rlockDates"]
    /\ UNCHANGED <<oneSymbol, onlyRealTimeData, dates, tsm, rds, ingestVars, saves, symbolOffset, restVars,
                   boardVars, uiVars, writer, cur, im, got, indices, stable,
                   events>>

\* src/ponzi.go:648
RLockDates(p) ==
    /\ pc[p] = "rlockDates"
    /\ CanRLock
    /\ readers' = readers \cup {p}
    /\ pc' = [pc EXCEPT ![p] = "dates"]
    /\ UNCHANGED <<oneSymbol, onlyRealTimeData, symbols, dates, tsm, rds, ingestVars, saves, symbolOffset, restVars,
                   boardVars, uiVars, writer, taskVars, cur, im, got, indices, stable,
                   events>>

\* src/ponzi.go:656: the next key of the iteration over scm, of the keys rem
\* not yet visited; "" when none is left.
NextKeys(rem) == IF rem = {} THEN {""} ELSE rem

\* ReadDates without the RUnlock of line 652.
ReadDates_keepLock(p) ==
    /\ pc[p] = "dates"
    /\ dates' = [dates EXCEPT ![p] = addDates(<<>>, tradingDates)]
    /\ \E s \in NextKeys(Range(symbols[p])) : cur' = [cur EXCEPT ![p] = s]
    /\ pc' = [pc EXCEPT ![p] = "range"]
    /\ UNCHANGED <<oneSymbol, onlyRealTimeData, symbols, tsm, rds, ingestVars, saves, symbolOffset, restVars,
                   boardVars, uiVars, lockVars, taskVars, im, got, indices, stable,
                   events>>

\* src/ponzi.go:649-652, and the iteration over scm begins.
ReadDates(p) ==
    /\ pc[p] = "dates"
    /\ dates' = [dates EXCEPT ![p] = addDates(<<>>, tradingDates)]
    /\ readers' = readers \ {p}
    /\ \E s \in NextKeys(Range(symbols[p])) : cur' = [cur EXCEPT ![p] = s]
    /\ pc' = [pc EXCEPT ![p] = "range"]
    /\ UNCHANGED <<oneSymbol, onlyRealTimeData, symbols, tsm, rds, ingestVars, saves, symbolOffset, restVars,
                   boardVars, uiVars, writer, taskVars, im, got, indices, stable,
                   events>>

\* src/ponzi.go:603-607 and 658-664: getTradingSessions returns in the
\* goroutine of the symbol, with sessions (ok) or with an error, ch <- tss
\* meets <-ch, and the sessions are converted and stored; or <-ch returns nil
\* at once from the channel closed at line 598.
ReceiveHistory_dropOnError(p, ok) ==
    /\ pc[p] = "range"
    /\ cur[p] # ""
    /\ \/ scm[p][cur[p]] = "fetching"
       \/ scm[p][cur[p]] = "closed" /\ ~ok
    /\ IF scm[p][cur[p]] = "fetching" /\ ~ok
       THEN /\ scm' = [scm EXCEPT ![p][cur[p]] = "done"]
            /\ UNCHANGED <<tsm, dates, got, cur>>
       ELSE LET s == cur[p]
                conv == convertTradingSessions(IF ok THEN sampleHistory ELSE <<>>)
            IN  /\ tsm' = [tsm EXCEPT ![p][s] = mergeMap(@, MapOf(conv))]
                /\ dates' = [dates EXCEPT ![p] = addDates(@, SessionDates(conv))]
                /\ scm' = [scm EXCEPT ![p][s] = IF @ = "closed" THEN "closed" ELSE "done"]
                /\ got' = [got EXCEPT ![p][s] = Append(@, IF ok THEN "ok" ELSE "nil")]
                /\ \E t \in NextKeys({u \in Range(symbols[p]) \ {s} : got[p][u] = <<>>}) :
                     cur' = [cur EXCEPT ![p] = t]
    /\ UNCHANGED <<pc, oneSymbol, onlyRealTimeData, symbols, rds, ingestVars, saves, symbolOffset, restVars,
                   boardVars, uiVars, lockVars, rc, ich, im, indices, stable,
                   events>>

ReceiveHistory(p, ok) ==
    /\ pc[p] = "range"
    /\ cur[p] # ""
    /\ \/ scm[p][cur[p]] = "fetching"
       \/ scm[p][cur[p]] = "closed" /\ ~ok
    /\ LET s == cur[p]
           conv == convertTradingSessions(IF ok THEN sampleHistory ELSE <<>>)
       IN  /\ tsm' = [tsm EXCEPT ![p][s] = mergeMap(@, MapOf(conv))]
           /\ dates' = [dates EXCEPT ![p] = addDates(@, SessionDates(conv))]
           /\ scm' = [scm EXCEPT ![p][s] = IF @ = "closed" THEN "closed" ELSE "done"]
           /\ got' = [got EXCEPT ![p][s] = Append(@, IF ok THEN "ok" ELSE "nil")]
           /\ \E t \in NextKeys({u \in Range(symbols[p]) \ {s} : got[p][u] = <<>>}) :
                cur' = [cur EXCEPT ![p] = t]
    /\ UNCHANGED <<pc, oneSymbol, onlyRealTimeData, symbols, rds, ingestVars, saves, symbolOffset, restVars,
                   boardVars, uiVars, lockVars, rc, ich, im, indices, stable,
                   events>>

\* src/ponzi.go:626-632 and 668-689: getRealTimeTradingData returns in the
\* goroutine, rc <- rds meets <-rc, or <-rc returns nil from the channel the
\* goroutine closed without a send; the quotes are merged, the dates sorted.
ReceiveLive(p, ok) ==
    /\ pc[p] = "range"
    /\ cur[p] = ""
    /\ \/ rc[p] = "fetching"
       \/ rc[p] = "closed" /\ ~ok
    /\ LET quotes == IF ok THEN sampleQuotes(symbols[p]) ELSE <<>>
           merged == mergeQuotes(tsm[p], dates[p], quotes)
       IN  /\ rds' = [rds EXCEPT ![p] = quotes]
           /\ tsm' = [tsm EXCEPT ![p] = merged.tsm]
           /\ dates' = [dates EXCEPT ![p] = sortDates(merged.dates)]
           /\ got' = [got EXCEPT ![p]["rc"] = Append(@, IF ok THEN "ok" ELSE "nil")]
    /\ rc' = [rc EXCEPT ![p] = IF @ = "closed" THEN "closed" ELSE "done"]
    /\ pc' = [pc EXCEPT ![p] = "recvIndex"]
    /\ UNCHANGED <<oneSymbol, onlyRealTimeData, symbols, ingestVars, saves, symbolOffset, restVars, boardVars,
                   uiVars, lockVars, scm, ich, cur, im, indices, stable, events>>

\* part_002:765-770 and 820: getLiveTradingSessions(indexSymbols) returns in
\* the goroutine, ch <- tss meets im := convertLiveTradingSessions(<-ich).
ReceiveIndex(p, ok) ==
    /\ pc[p] = "recvIndex"
    /\ ich[p] = "fetching"
    /\ im' = [im EXCEPT ![p] = IF ok THEN 1 ELSE 0]
    /\ got' = [got EXCEPT ![p]["ich"] = Append(@, IF ok THEN "ok" ELSE "nil")]
    /\ ich' = [ich EXCEPT ![p] = "done"]
    /\ pc' = [pc EXCEPT ![p] = "lock"]
    /\ UNCHANGED <<oneSymbol, onlyRealTimeData, symbols, dates, tsm, rds, ingestVars, saves, symbolOffset, restVars,
                   boardVars, uiVars, lockVars, scm, rc, cur, indices, stable,
                   events>>

\* src/ponzi.go:692
LockCommit(p) ==
    /\ pc[p] = "lock"
    /\ CanLock
    /\ writer' = p
    /\ pc' = [pc EXCEPT ![p] = "refreshTime"]
    /\ UNCHANGED <<oneSymbol, onlyRealTimeData, symbols, dates, tsm, rds, ingestVars, saves, symbolOffset, restVars,
                   boardVars, uiVars, readers, taskVars, cur, im, got, indices, stable,
                   events>>

\* src/ponzi.go:693
WriteRefreshTime(p) ==
    /\ pc[p] = "refreshTime"
    /\ refreshTime' = 1
    /\ pc' = [pc EXCEPT ![p] = "tradingDates"]
    /\ UNCHANGED <<oneSymbol, onlyRealTimeData, symbols, dates, tsm, rds, ingestVars, saves, symbolOffset, restVars,
                   tradingDates, stocks, uiVars, runVars>>

\* src/ponzi.go:694
WriteTradingDates(p) ==
    /\ pc[p] = "tradingDates"
    /\ tradingDates' = dates[p]
    /\ pc' = [pc EXCEPT ![p] = "stocks"]
    /\ UNCHANGED <<oneSymbol, onlyRealTimeData, symbols, dates, tsm, rds, ingestVars, saves, symbolOffset, restVars,
                   refreshTime, stocks, uiVars, runVars>>

\* src/ponzi.go:695-702: the loop over the rows.
WriteRows(p) ==
    /\ pc[p] = "stocks"
    /\ stocks' = [i \in 1..Len(stocks) |->
            stock(stocks[i].symbol,
                  IF stocks[i].symbol \in Symbols
                  THEN mergeMap(stocks[i].tradingSessionMap, tsm[p][stocks[i].symbol])
                  ELSE stocks[i].tradingSessionMap)]
    /\ pc' = [pc EXCEPT ![p] = "indices"]
    /\ UNCHANGED <<oneSymbol, onlyRealTimeData, symbols, dates, tsm, rds, ingestVars, saves, symbolOffset, restVars,
                   refreshTime, tradingDates, uiVars, runVars>>

\* part_002:837-839
WriteIndices(p) ==
    /\ pc[p] = "indices"
    /\ indices' = im[p]
    /\ pc' = [pc EXCEPT ![p] = "unlock"]
    /\ UNCHANGED <<oneSymbol, onlyRealTimeData, symbols, dates, tsm, rds, ingestVars, saves, symbolOffset, restVars,
                   boardVars, uiVars, lockVars, taskVars, cur, im, got, stable,
                   events>>

\* src/ponzi.go:703
UnlockCommit(p) ==
    /\ pc[p] = "unlock"
    /\ writer' = "none"
    /\ stable' = board
    /\ pc' = [pc EXCEPT ![p] = "ret"]
    /\ UNCHANGED <<oneSymbol, onlyRealTimeData, symbols, dates, tsm, rds, ingestVars, saves, symbolOffset, restVars,
                   boardVars, uiVars, readers, taskVars, cur, im, got, indices,
                   events>>

\* src/ponzi.go:704: the call returns.  The timer goroutine then queues an
\* interrupt event (331, 349), on which PollEvent returns and the loop
\* repaints; the UI thread empties the buffer after Enter (549) and repaints.
RunReturn_clear(p) ==
    /\ pc[p] = "ret"
    /\ pc' = IF p = "ui" THEN [pc EXCEPT ![p] = "render"]
             ELSE [pc EXCEPT ![p] = "idle",
                             !["ui"] = IF @ = "poll" THEN "render" ELSE @]
    /\ inputSymbol' = IF p = "ui" THEN "" ELSE inputSymbol
    /\ oneSymbol' = [oneSymbol EXCEPT ![p] = ""]
    /\ onlyRealTimeData' = [onlyRealTimeData EXCEPT ![p] = FALSE]
    /\ symbols' = [symbols EXCEPT ![p] = <<>>]
    /\ dates' = [dates EXCEPT ![p] = <<>>]
    /\ tsm' = [tsm EXCEPT ![p] = [s \in Symbols |-> NoMap]]
    /\ rds' = [rds EXCEPT ![p] = <<>>]
    /\ scm' = [scm EXCEPT ![p] = [s \in Symbols |-> "off"]]
    /\ rc' = [rc EXCEPT ![p] = "off"]
    /\ ich' = [ich EXCEPT ![p] = "off"]
    /\ im' = [im EXCEPT ![p] = 0]
    /\ got' = [got EXCEPT ![p] = [c \in Channels |-> <<>>]]
    /\ UNCHANGED <<selectedIndex, ingestVars, saves, symbolOffset, restVars, boardVars, lockVars, cur, indices, stable,
                   events>>

RunReturn(p) ==
    /\ pc[p] = "ret"
    /\ pc' = IF p = "ui" THEN [pc EXCEPT ![p] = "render"]
             ELSE [pc EXCEPT ![p] = "idle",
                             !["ui"] = IF @ = "poll" THEN "render" ELSE @]
    /\ inputSymbol' = IF p = "ui" /\ oneSymbol[p] # "" THEN "" ELSE inputSymbol
    /\ oneSymbol' = [oneSymbol EXCEPT ![p] = ""]
    /\ onlyRealTimeData' = [onlyRealTimeData EXCEPT ![p] = FALSE]
    /\ symbols' = [symbols EXCEPT ![p] = <<>>]
    /\ dates' = [dates EXCEPT ![p] = <<>>]
    /\ tsm' = [tsm EXCEPT ![p] = [s \in Symbols |-> NoMap]]
    /\ rds' = [rds EXCEPT ![p] = <<>>]
    /\ scm' = [scm EXCEPT ![p] = [s \in Symbols |-> "off"]]
    /\ rc' = [rc EXCEPT ![p] = "off"]
    /\ ich' = [ich EXCEPT ![p] = "off"]
    /\ im' = [im EXCEPT ![p] = 0]
    /\ got' = [got EXCEPT ![p] = [c \in Channels |-> <<>>]]
    /\ UNCHANGED <<selectedIndex, ingestVars, saves, symbolOffset, restVars, boardVars, lockVars, cur, indices, stable,
                   events>>

\* src/ponzi.go:371
RLockRender ==
    /\ pc["ui"] = "render"
    /\ CanRLock
    /\ readers' = readers \cup {"ui"}
    /\ pc' = [pc EXCEPT !["ui"] = "paint"]
    /\ UNCHANGED <<oneSymbol, onlyRealTimeData, symbols, dates, tsm, rds, ingestVars, saves, symbolOffset, restVars,
                   boardVars, uiVars, writer, taskVars, cur, im, got, indices, stable,
                   events>>

\* src/ponzi.go:195-205
symbolColumnWidth == 5
tsColumnWidth == 8
tsColumnHeight == 4
padding == 1

\* src/ponzi.go:405-406
startY == 5

\* The / of Go on integers, which truncates toward zero.
quo(a, b) == IF a >= 0 THEN a \div b ELSE 0 - ((0 - a) \div b)

\* src/ponzi.go:379-384: the dates of ds that the header and the rows loop
\* over.
trimDates(ds, width) ==
    LET fit == quo(width - symbolColumnWidth - padding, tsColumnWidth + padding)
        tsColumnCount == IF fit > Len(ds) THEN Len(ds) ELSE fit
    IN  SubSeq(ds, Len(ds) - tsColumnCount + 1, Len(ds))

\* src/ponzi.go:388-402 and 440-486: the loop over the trimmed dates tds from
\* the column x, which breaks at the first date whose column passes the width.
RECURSIVE dateColumns(_, _, _)
dateColumns(tds, x, width) ==
    IF tds = <<>> \/ x + tsColumnWidth + padding > width THEN <<>>
    ELSE <<Head(tds)>> \o dateColumns(Tail(tds), x + tsColumnWidth + padding, width)

\* src/ponzi.go:386-403: the dates printed at the top.
headerDates(ds, width) ==
    dateColumns(trimDates(ds, width), symbolColumnWidth + padding * 2, width)

\* src/ponzi.go:423-441: the dates of the cells of a row, after its symbol.
rowDates(ds, width) ==
    dateColumns(trimDates(ds, width), padding + symbolColumnWidth + padding, width)

\* src/ponzi.go:408-411 getY: the top line of a row of the window.
getY(row) == startY + (tsColumnHeight + padding) * row

\* The second loop of the scroll adjustment when it never runs.
scrollDown_never(sel, off, height) == off

\* src/ponzi.go:414-416: symbolOffset-- while the selected row is above the
\* window.
RECURSIVE scrollUp(_, _)
scrollUp(sel, off) ==
    IF getY(sel - off) < startY THEN scrollUp(sel, off - 1) ELSE off

\* src/ponzi.go:417-419: symbolOffset++ while the line after the selected row
\* is below the terminal.
RECURSIVE scrollDown(_, _, _)
scrollDown(sel, off, height) ==
    IF getY(sel - off + 1) > height THEN scrollDown(sel, off + 1, height) ELSE off

\* src/ponzi.go:422-426: the indices of the rows printed, from row off on, up
\* to the first whose cells pass the height.
RECURSIVE drawnRows(_, _, _, _)
drawnRows(n, off, i, height) ==
    IF off + i >= n \/ getY(i) + tsColumnHeight + padding > height THEN <<>>
    ELSE <<off + i>> \o drawnRows(n, off, i + 1, height)

\* src/ponzi.go:373-489: the header and the cells are printed from
\* refreshTime, tradingDates and stocks, after symbolOffset was adjusted to the
\* selection; sd.stocks[symbolOffset:] panics when symbolOffset passes the
\* rows; RUnlock; then PollEvent (495).
Paint ==
    /\ pc["ui"] = "paint"
    /\ readers' = readers \ {"ui"}
    /\ symbolOffset' = scrollDown(selectedIndex, scrollUp(selectedIndex, symbolOffset), h)
    /\ pc' = [pc EXCEPT !["ui"] = IF symbolOffset' > Len(stocks) THEN "panic" ELSE "poll"]
    /\ UNCHANGED <<oneSymbol, onlyRealTimeData, symbols, dates, tsm, rds, ingestVars, saves, restVars,
                   boardVars, uiVars, writer, taskVars, cur, im, got, indices, stable,
                   events>>

\* src/ponzi.go:495-496: PollEvent returns an event that is no key (a resize).
Repaint ==
    /\ pc["ui"] = "poll"
    /\ pc' = [pc EXCEPT !["ui"] = "render"]
    /\ events < MaxEvents
    /\ events' = events + 1
    /\ UNCHANGED <<oneSymbol, onlyRealTimeData, symbols, dates, tsm, rds, ingestVars, saves, symbolOffset, restVars,
                   boardVars, uiVars, lockVars, taskVars, cur, im, got,
                   indices, stable>>

\* The handler of ArrowUp when the first row has no row to wrap to.
RunKeyArrowUp_noWrap(alt) ==
    /\ pc["ui"] = "poll"
    /\ CanLock
    /\ writer' = "ui"
    /\ IF Len(stocks) > 0
       THEN LET swapIndex == IF selectedIndex - 1 < 0 THEN 0
                             ELSE selectedIndex - 1
            IN  /\ stocks' = IF alt THEN swapRows(stocks, selectedIndex + 1, swapIndex + 1)
                             ELSE stocks
                /\ selectedIndex' = swapIndex
       ELSE UNCHANGED <<stocks, selectedIndex>>
    /\ pc' = [pc EXCEPT !["ui"] = "unlockEdit"]
    /\ events < MaxEvents
    /\ events' = events + 1
    /\ IF Len(stocks) > 0 /\ alt THEN saveStockData(stocks') ELSE UNCHANGED saves
    /\ UNCHANGED <<oneSymbol, onlyRealTimeData, symbols, dates, tsm, rds, ingestVars, symbolOffset, restVars,
                   refreshTime, tradingDates, inputSymbol, readers, taskVars, cur,
                   im, got, indices, stable>>

\* src/ponzi.go:505-517: the arrow-up key, up to the unlock.
RunKeyArrowUp(alt) ==
    /\ pc["ui"] = "poll"
    /\ CanLock
    /\ writer' = "ui"
    /\ IF Len(stocks) > 0
       THEN LET swapIndex == IF selectedIndex - 1 < 0 THEN Len(stocks) - 1
                             ELSE selectedIndex - 1
            IN  /\ stocks' = IF alt THEN swapRows(stocks, selectedIndex + 1, swapIndex + 1)
                             ELSE stocks
                /\ selectedIndex' = swapIndex
       ELSE UNCHANGED <<stocks, selectedIndex>>
    /\ pc' = [pc EXCEPT !["ui"] = "unlockEdit"]
    /\ events < MaxEvents
    /\ events' = events + 1
    /\ IF Len(stocks) > 0 /\ alt THEN saveStockData(stocks') ELSE UNCHANGED saves
    /\ UNCHANGED <<oneSymbol, onlyRealTimeData, symbols, dates, tsm, rds, ingestVars, symbolOffset, restVars,
                   refreshTime, tradingDates, inputSymbol, readers, taskVars, cur,
                   im, got, indices, stable>>

\* src/ponzi.go:552-560: the delete key, up to the unlock.
RunKeyDelete ==
    /\ pc["ui"] = "poll"
    /\ CanLock
    /\ writer' = "ui"
    /\ IF Len(stocks) > 0
       THEN /\ stocks' = deleteRow(stocks, selectedIndex)
            /\ selectedIndex' = IF selectedIndex - 1 >= 0 THEN selectedIndex - 1
                                ELSE selectedIndex
       ELSE UNCHANGED <<stocks, selectedIndex>>
    /\ pc' = [pc EXCEPT !["ui"] = "unlockEdit"]
    /\ events < MaxEvents
    /\ events' = events + 1
    /\ IF Len(stocks) > 0 THEN saveStockData(stocks') ELSE UNCHANGED saves
    /\ UNCHANGED <<oneSymbol, onlyRealTimeData, symbols, dates, tsm, rds, ingestVars, symbolOffset, restVars,
                   refreshTime, tradingDates, inputSymbol, readers, taskVars, cur,
                   im, got, indices, stable>>

\* src/ponzi.go:518, 561
UnlockEdit ==
    /\ pc["ui"] = "unlockEdit"
    /\ writer' = "none"
    /\ stable' = board
    /\ pc' = [pc EXCEPT !["ui"] = "render"]
    /\ UNCHANGED <<oneSymbol, onlyRealTimeData, symbols, dates, tsm, rds, ingestVars, saves, symbolOffset, restVars,
                   boardVars, uiVars, readers, taskVars, cur, im, got, indices,
                   events>>

\* src/ponzi.go:568-569, then 535-540: the printable keys that leave the
\* ticker s in the buffer, then Enter: Lock, and a blank row is appended.
RunKeyEnter(s) ==
    /\ pc["ui"] = "poll"
    /\ CanLock
    /\ writer' = "ui"
    /\ inputSymbol' = s
    /\ stocks' = Append(stocks, stock("", NoMap))
    /\ pc' = [pc EXCEPT !["ui"] = "shift"]
    /\ events < MaxEvents
    /\ events' = events + 1
    /\ UNCHANGED <<oneSymbol, onlyRealTimeData, symbols, dates, tsm, rds, ingestVars, saves, symbolOffset, restVars,
                   refreshTime, tradingDates, selectedIndex, readers, taskVars, cur,
                   im, got, indices, stable>>

\* src/ponzi.go:541: copy(sd.stocks[selectedIndex+1:], sd.stocks[selectedIndex:])
ShiftRows_fromNext ==
    /\ pc["ui"] = "shift"
    /\ stocks' = [k \in 1..Len(stocks) |->
            IF k > selectedIndex + 2 THEN stocks[k - 1] ELSE stocks[k]]
    /\ pc' = [pc EXCEPT !["ui"] = "slot"]
    /\ UNCHANGED <<oneSymbol, onlyRealTimeData, symbols, dates, tsm, rds, ingestVars, saves, symbolOffset, restVars,
                   refreshTime, tradingDates, uiVars, runVars>>

ShiftRows ==
    /\ pc["ui"] = "shift"
    /\ stocks' = [k \in 1..Len(stocks) |->
            IF k > selectedIndex + 1 THEN stocks[k - 1] ELSE stocks[k]]
    /\ pc' = [pc EXCEPT !["ui"] = "slot"]
    /\ UNCHANGED <<oneSymbol, onlyRealTimeData, symbols, dates, tsm, rds, ingestVars, saves, symbolOffset, restVars,
                   refreshTime, tradingDates, uiVars, runVars>>

\* src/ponzi.go:542
WriteSlot ==
    /\ pc["ui"] = "slot"
    /\ stocks' = [stocks EXCEPT ![selectedIndex + 1] = stock(inputSymbol, NoMap)]
    /\ pc' = [pc EXCEPT !["ui"] = "unlockInsert"]
    /\ UNCHANGED <<oneSymbol, onlyRealTimeData, symbols, dates, tsm, rds, ingestVars, saves, symbolOffset, restVars,
                   refreshTime, tradingDates, uiVars, runVars>>

\* src/ponzi.go:545-548: Unlock, then refreshStockData(sd, inputSymbol, false).
UnlockInsert ==
    /\ pc["ui"] = "unlockInsert"
    /\ writer' = "none"
    /\ stable' = board
    /\ Call("ui", inputSymbol, FALSE)
    /\ saveStockData(stocks)
    /\ UNCHANGED <<symbols, dates, tsm, rds, ingestVars, symbolOffset, restVars, boardVars, uiVars, readers,
                   taskVars, cur, im, got, indices, events>>

\* The lock calls of refreshStockData.
Locks(p) == RLockSymbols(p) \/ RLockDates(p) \/ LockCommit(p)

\* The steps of refreshStockData that wait for no lock.
Steps(p) ==
    \/ QueueOne(p) \/ QueueAll(p) \/ ReadDates(p)
    \/ \E ok \in BOOLEAN : ReceiveHistory(p, ok) \/ ReceiveLive(p, ok) \/ ReceiveIndex(p, ok)
    \/ WriteRefreshTime(p) \/ WriteTradingDates(p) \/ WriteRows(p) \/ WriteIndices(p)
    \/ UnlockCommit(p) \/ RunReturn(p)

\* The steps of the render loop that follow an event.
Sections == RLockRender \/ Paint \/ UnlockEdit \/ ShiftRows \/ WriteSlot \/ UnlockInsert

\* What the timers and the terminal bring.
Events ==
    \/ RunTimerRefresh \/ RunTimerLive
    \/ Repaint \/ RunKeyCtrlR \/ RunKeyDelete
    \/ \E alt \in BOOLEAN : RunKeyArrowUp(alt)
    \/ \E s \in Symbols : RunKeyEnter(s)

NextRun ==
    \/ RunBoot
    \/ Events
    \/ Sections
    \/ \E p \in Procs : Locks(p) \/ Steps(p)

SpecRun == InitRun /\ [][NextRun]_vars

\* A fetch under way returns, and a step of refreshStockData that waits for
\* no lock is taken; a thread that calls RLock or Lock again and again gets
\* the lock (sync.RWMutex keeps new readers out while a writer waits).
Fairness ==
    /\ WF_vars(Sections)
    /\ \A p \in Procs :
        /\ WF_vars(Steps(p))
        /\ SF_vars(Locks(p))

SpecRunFair == SpecRun /\ Fairness

(***************************************************************************)
(* Claims about the call at the fine grain.                                 *)
(***************************************************************************)

\* The channels of the goroutines that thread p's call launched.
Launched(p) == Range(symbols[p]) \cup {"rc", "ich"}

\* What the commit of thread p leaves of the fetches that succeeded.
CommittedResults(p) ==
    /\ got[p]["ich"] = <<"ok">> => indices = 1
    /\ \A i \in 1..Len(stocks) :
        LET s == stocks[i].symbol
            m == stocks[i].tradingSessionMap
            conv == convertTradingSessions(sampleHistory)
        IN  s \in Range(symbols[p]) =>
              /\ got[p][s] = <<"ok">> =>
                    \A k \in 1..Len(conv) : Entry(stocks, i, conv[k].date) = {conv[k]}
              /\ got[p]["rc"] = <<"ok">> => DateOf(2) \in DOMAIN m
              /\ (got[p]["rc"] = <<"ok">> /\ got[p][s] = <<"nil">>) =>
                    m[DateOf(2)] = liveSession(realTimeTradingData(s, DateOf(2) + 15))

\* C5: a call of refreshStockData always gets to its commit and returns; when
\* it has committed it has received exactly one value from the channel of
\* every history goroutine it launched, one from rc and one from ich, and
\* nothing from any other channel, whichever of the fetches failed; and the
\* board then holds the results of the fetches that succeeded.
C5_CycleAlwaysCommits ==
    /\ [](\A p \in Procs :
            pc[p] = "unlock" =>
                /\ \A c \in Channels :
                    Len(got[p][c]) = IF c \in Launched(p) THEN 1 ELSE 0
                /\ CommittedResults(p))
    /\ \A p \in Procs : (pc[p] = "call") ~> (pc[p] = "ret")

\* A call has committed after its history fetch failed and its quote fetch
\* succeeded: the row holds the session of the quote.
C5_Witness ==
    \E p \in Procs : \E i \in 1..Len(stocks) :
        /\ pc[p] = "ret"
        /\ stocks[i].symbol \in Range(symbols[p])
        /\ got[p][stocks[i].symbol] = <<"nil">>
        /\ got[p]["rc"] = <<"ok">>
        /\ DOMAIN stocks[i].tradingSessionMap = {DateOf(2)}

\* The UI thread stands at a receive from the channel of a fetch that has not
\* returned yet.
UIWaitsOnFetch ==
    /\ pc["ui"] = "range"
    /\ \/ cur["ui"] # "" /\ scm["ui"][cur["ui"]] = "fetching"
       \/ cur["ui"] = "" /\ rc["ui"] = "fetching"

\* C7: the UI thread never waits on network I/O: in no state does it stand
\* at the receive of a history or quote fetch that is still under way.
C7_UINeverWaitsOnFetch == ~UIWaitsOnFetch

\* C8: whenever a reader (the renderer, a call reading the rows or the
\* previous dates) is inside its read section, the board is as the last
\* complete edit or commit left it: no step of an insert, delete, swap or
\* commit under way shows.
C8_ReadersSeeCompleteWrites == readers # {} => board = stable

\* The UI thread has appended the blank row of an insert and not yet written
\* the slot, while the timer goroutine stands at an RLock; and the timer
\* goroutine reads inside its read section later.
C8_Witness ==
    /\ pc["ui"] = "shift"
    /\ board # stable
    /\ pc["timer"] \in {"call", "rlockDates"}

(***************************************************************************)
(* The UI thread alone, at the same grain, on a board that earlier cycles   *)
(* and edits have filled: one terminal event and what follows it.           *)
(***************************************************************************)
MaxRows == 3

\* The map of a row whose history was fetched.
loadedMap == MapOf(convertTradingSessions(sampleHistory))

\* A row as a cycle leaves it: with the sessions of its symbol, or, when the
\* fetches for it failed since it was inserted, without any.
LoadedRows == {stock(s, m) : s \in Symbols, m \in {NoMap, loadedMap}}

\* src/ponzi.go:355: the render loop is about to paint a board of up to
\* MaxRows rows, the selection on one of them; the timer goroutine sleeps.
InitUI ==
    /\ IngestAtRest
    /\ refreshTime = 1
    /\ tradingDates = <<DateOf(1), DateOf(2)>>
    /\ stocks \in SeqsUpTo(LoadedRows, MaxRows)
    /\ inputSymbol = ""
    /\ selectedIndex \in 0..(IF Len(stocks) = 0 THEN 0 ELSE Len(stocks) - 1)
    /\ pc = [p \in Procs |-> IF p = "timer" THEN "idle" ELSE "render"]
    /\ NoCycle
    /\ writer = "none"
    /\ readers = {}
    /\ scm = [p \in Procs |-> [s \in Symbols |-> "off"]]
    /\ rc = [p \in Procs |-> "off"]
    /\ ich = [p \in Procs |-> "off"]
    /\ cur = [p \in Procs |-> ""]
    /\ im = [p \in Procs |-> 0]
    /\ got = [p \in Procs |-> [c \in Channels |-> <<>>]]
    /\ indices = 0
    /\ stable = board
    /\ events = MaxEvents - 1
    /\ SaveAtRest
    /\ ViewAtRest
    /\ CallAtRest
    /\ ClockAtRest

\* src/ponzi.go:520-532: the arrow-down key, up to the unlock.
RunKeyArrowDown(alt) ==
    /\ pc["ui"] = "poll"
    /\ CanLock
    /\ writer' = "ui"
    /\ IF Len(stocks) > 0
       THEN LET swapIndex == IF selectedIndex + 1 = Len(stocks) THEN 0
                             ELSE selectedIndex + 1
            IN  /\ stocks' = IF alt THEN swapRows(stocks, selectedIndex + 1, swapIndex + 1)
                             ELSE stocks
                /\ selectedIndex' = swapIndex
       ELSE UNCHANGED <<stocks, selectedIndex>>
    /\ pc' = [pc EXCEPT !["ui"] = "unlockEdit"]
    /\ events < MaxEvents
    /\ events' = events + 1
    /\ IF Len(stocks) > 0 /\ alt THEN saveStockData(stocks') ELSE UNCHANGED saves
    /\ UNCHANGED <<oneSymbol, onlyRealTimeData, symbols, dates, tsm, rds, ingestVars, symbolOffset, restVars,
                   refreshTime, tradingDates, inputSymbol, readers, taskVars, cur,
                   im, got, indices, stable>>

\* src/ponzi.go:495-571: the events of the terminal.
KeyEvents ==
    \/ Repaint \/ RunKeyCtrlR \/ RunKeyDelete
    \/ \E alt \in BOOLEAN : RunKeyArrowUp(alt) \/ RunKeyArrowDown(alt)
    \/ \E s \in Symbols : RunKeyEnter(s)

NextUI == KeyEvents \/ Sections \/ Locks("ui") \/ Steps("ui")

SpecUI == InitUI /\ [][NextUI]_vars

(***************************************************************************)
(* Claims about the key handlers.                                           *)
(***************************************************************************)

\* The rows when the write lock was last released: the rows before the edit
\* under way.
rowsBefore == stable[3]

\* C11: Enter with the buffer X and the selection at index k of n rows leaves
\* n + 1 rows, X at index k, the rows before k as they were, the rows from k
\* on one index further with their sessions, and the selection at k; on an
\* empty list X is the only row.
C11_EnterInsertsAtSelection ==
    [][/\ pc'["ui"] \in {"shift", "slot", "unlockInsert"} =>
            /\ selectedIndex' = selectedIndex
            /\ stable' = stable
       /\ (pc["ui"] = "slot" /\ pc'["ui"] = "unlockInsert") =>
            LET n == Len(rowsBefore)
                k == selectedIndex
            IN  /\ Len(stocks') = n + 1
                /\ stocks'[k + 1].symbol = inputSymbol
                /\ inputSymbol # ""
                /\ \A i \in 1..k : stocks'[i] = rowsBefore[i]
                /\ \A i \in (k + 1)..n : stocks'[i + 1] = rowsBefore[i]]_vars

\* B was entered at index 1 of A, A without sessions, A: the rows are A, B,
\* A without sessions, A with its sessions, and the selection is at B.
C11_Witness ==
    /\ pc["ui"] = "unlockInsert"
    /\ selectedIndex = 1
    /\ SymbolsOf(stocks) = <<"A", "B", "A", "A">>
    /\ stocks[3].tradingSessionMap = NoMap
    /\ stocks[4].tradingSessionMap = loadedMap

\* The rows ss after the row at index k (from 0) changed places with the row
\* at index j, the selection going with it.
Swapped(ss, k, j) ==
    /\ Len(stocks') = Len(ss)
    /\ stocks'[j + 1] = ss[k + 1]
    /\ stocks'[k + 1] = ss[j + 1]
    /\ \A i \in 1..Len(ss) : i \notin {k + 1, j + 1} => stocks'[i] = ss[i]
    /\ selectedIndex' = j

\* C12: Up (Down) with the modifier on n >= 1 rows swaps the selected row
\* with the row before (after) it, the first row with the last and the last
\* with the first, rows going with their sessions, leaves every other row
\* where it is and moves the selection to where the selected row went.
C12_ModifiedArrowSwaps ==
    [][LET n == Len(stocks)
           k == selectedIndex
       IN  /\ (RunKeyArrowUp(TRUE) /\ n > 0) => Swapped(stocks, k, (k + n - 1) % n)
           /\ (RunKeyArrowDown(TRUE) /\ n > 0) => Swapped(stocks, k, (k + 1) % n)]_vars

\* Up with the modifier at index 1 of A, B, A: the rows are B, A, A, the
\* sessions of the first A are at index 1 and the selection is at index 0.
C12_Witness ==
    /\ pc["ui"] = "unlockEdit"
    /\ selectedIndex = 0
    /\ SymbolsOf(rowsBefore) = <<"A", "B", "A">>
    /\ rowsBefore[1].tradingSessionMap = loadedMap
    /\ rowsBefore[2].tradingSessionMap = NoMap
    /\ rowsBefore[3].tradingSessionMap = NoMap
    /\ stocks = <<rowsBefore[2], rowsBefore[1], rowsBefore[3]>>

\* C17: ArrowUp without the modifier moves the selection from k to
\* (k - 1) mod n, ArrowDown to (k + 1) mod n, and neither changes a row; on an
\* empty board neither changes anything.
C17_ArrowMovesSelection ==
    [][LET n == Len(stocks)
           k == selectedIndex
       IN  /\ RunKeyArrowUp(FALSE) =>
                /\ stocks' = stocks
                /\ selectedIndex' = IF n > 0 THEN (k + n - 1) % n ELSE k
           /\ RunKeyArrowDown(FALSE) =>
                /\ stocks' = stocks
                /\ selectedIndex' = IF n > 0 THEN (k + 1) % n ELSE k]_vars

\* ArrowUp on the first of three different rows: the last row is selected.
C17_Witness ==
    /\ pc["ui"] = "unlockEdit"
    /\ stocks = rowsBefore
    /\ SymbolsOf(stocks) = <<"A", "B", "A">>
    /\ stocks[1].tradingSessionMap = loadedMap
    /\ stocks[2].tradingSessionMap = NoMap
    /\ stocks[3].tradingSessionMap = NoMap
    /\ selectedIndex = 2

\* C18: Delete on n >= 1 rows with the selection at k removes row k and
\* leaves the selection at min(k, n - 2), at 0 when no row is left; on an
\* empty board it changes nothing.
C18_DeleteClampsSelection ==
    [][LET n == Len(stocks)
           k == selectedIndex
       IN  RunKeyDelete =>
             IF n = 0 THEN UNCHANGED <<stocks, selectedIndex>>
             ELSE /\ Len(stocks') = n - 1
                  /\ \A i \in 1..(n - 1) :
                        stocks'[i] = IF i <= k THEN stocks[i] ELSE stocks[i + 1]
                  /\ selectedIndex' = IF n = 1 THEN 0
                                      ELSE IF k <= n - 2 THEN k ELSE n - 2]_vars

\* Thread p is in a full refresh, after the launches of its goroutines.
FullCycle(p) ==
    /\ pc[p] \in {"rlockDates", "dates", "range", "recvIndex", "lock", "refreshTime",
                  "tradingDates", "stocks", "indices", "unlock", "ret"}
    /\ oneSymbol[p] = ""
    /\ ~onlyRealTimeData[p]

\* src/ponzi.go:593-608: queueRequest appends to symbols once for each
\* goroutine it launches, so the history fetches of symbol s are its
\* occurrences in symbols.
Fetches(p, s) == Cardinality({i \in 1..Len(symbols[p]) : symbols[p][i] = s})

SaveOutcomes == {"saved", "unopened", "truncated"}

\* src/ponzi.go:297-305 main: the rows are the symbols of the loaded config.
InitSave ==
    /\ IngestAtRest
    /\ refreshTime = 0
    /\ tradingDates = <<>>
    /\ stocks \in {[i \in 1..Len(cfg) |-> stock(cfg[i], NoMap)] :
                      cfg \in SeqsUpTo(Symbols, MaxStocks)}
    /\ inputSymbol = ""
    /\ selectedIndex = 0
    /\ pc = [p \in Procs |-> "idle"]
    /\ NoCycle
    /\ RunAtRest
    /\ config = SymbolsOf(stocks)
    /\ saves = <<>>
    /\ logged = FALSE
    /\ CallAtRest
    /\ ViewAtRest
    /\ ClockAtRest

\* The save goroutine with log.Fatalf in the place of log.Printf.
SaveConfig_fatal(i, outcome) ==
    /\ i \in 1..Len(saves)
    /\ config' = CASE outcome = "saved" -> saves[i]
                    [] outcome = "unopened" -> config
                    [] outcome = "truncated" -> <<>>
    /\ logged' = (logged \/ outcome # "saved")
    /\ saves' = [j \in 1..(Len(saves) - 1) |-> IF j < i THEN saves[j] ELSE saves[j + 1]]
    /\ pc' = IF outcome = "saved" THEN pc ELSE [p \in Procs |-> "exit"]
    /\ UNCHANGED <<ingestVars, boardVars, uiVars, oneSymbol, onlyRealTimeData, symbols, dates,
                   tsm, rds, runVars, callVars, symbolOffset, sizeVars, clockVars>>

\* src/ponzi.go:734-738: the i-th waiting goroutine runs saveConfig(cfg) and
\* logs its error.
SaveConfig(i, outcome) ==
    /\ i \in 1..Len(saves)
    /\ config' = CASE outcome = "saved" -> saves[i]
                    [] outcome = "unopened" -> config
                    [] outcome = "truncated" -> <<>>
    /\ logged' = (logged \/ outcome # "saved")
    /\ saves' = [j \in 1..(Len(saves) - 1) |-> IF j < i THEN saves[j] ELSE saves[j + 1]]
    /\ UNCHANGED <<ingestVars, boardVars, uiVars, cycleVars, runVars, callVars, symbolOffset, sizeVars, clockVars>>

NextSave ==
    \/ Keys
    \/ EnterRefresh
    \/ CycleSteps
    \/ \E i \in 1..MaxSaves, outcome \in SaveOutcomes : SaveConfig(i, outcome)

SpecSave == InitSave /\ [][NextSave]_vars

\* C13: once every save goroutine has run and none reported an error, the
\* config file holds the symbols of the rows, in their order.
C13_SavedConfigIsCurrentList ==
    (saves = <<>> /\ ~logged) => config = SymbolsOf(stocks)

\* A call of saveConfig returns an error.
SaveFails ==
    \E i \in 1..MaxSaves, outcome \in SaveOutcomes \ {"saved"} : SaveConfig(i, outcome)

\* C24: a save of the config that fails leaves the rows with their sessions,
\* the selection, the buffer and the dates as they were, and stops no thread.
C24_FailedSaveKeepsBoard ==
    [][SaveFails =>
         /\ stocks' = stocks
         /\ selectedIndex' = selectedIndex
         /\ inputSymbol' = inputSymbol
         /\ tradingDates' = tradingDates
         /\ refreshTime' = refreshTime
         /\ pc' = pc]_vars

\* The save of an edit has failed: the rows are those of the edit, the file
\* is not.
C24_Witness ==
    /\ logged
    /\ saves = <<>>
    /\ stocks # <<>>
    /\ config # SymbolsOf(stocks)

(***************************************************************************)
(* The live quotes.  A response of the quote service is the outcome of the *)
(* transfer and the entries that json.Unmarshal found, their fields still  *)
(* strings.  SpecQuote calls each of the two parsers of the repository on  *)
(* every response of at most MaxEntries entries.                           *)
(***************************************************************************)

MaxEntries == 2

\* strconv.ParseFloat(s, 64) on the strings of the model: a numeral gives its
\* value, every other string, the empty one included, a syntax error.
ParseFloat(s) ==
    CASE s = "1" -> [ok |-> TRUE, v |-> 1]
      [] s = "-1" -> [ok |-> TRUE, v |-> 0 - 1]
      [] s = "50" -> [ok |-> TRUE, v |-> 50]
      [] OTHER -> [ok |-> FALSE, v |-> 0]

\* time.Parse("2006-01-02T15:04:05Z", s), the instant in hours.
timeParse(s) ==
    CASE s = "1970-01-03T15:00:00Z" -> [ok |-> TRUE, v |-> DateOf(2) + 15]
      [] OTHER -> [ok |-> FALSE, v |-> 0]

\* src/tradingsession.go:313-319: the fields of an entry of the response.
ParsedEntries ==
    [T : Symbols, L : {"1", "n/a"}, C : {"", "1", "-1", "n/a"},
     Cp : {"", "50", "n/a"}, Lt_dts : {"1970-01-03T15:00:00Z", "today"}]

\* src/tradingsession.go:306-333: the transfer fails, the body is shorter than
\* the "//" prefix, the body is not JSON, or up to n entries are parsed.
Responses(n) ==
    {[status |-> st, parsed |-> <<>>] : st \in {"transport", "short", "syntax"}}
    \cup {[status |-> "ok", parsed |-> ps] : ps \in SeqsUpTo(ParsedEntries, n)}

Failed == [err |-> TRUE, val |-> <<>>]

\* src/tradingsession.go:340-371: the loop over the entries, which returns at
\* the first field that does not parse; an empty C or Cp is not parsed.
RECURSIVE liveLoop(_, _)
liveLoop(parsed, lts) ==
    IF parsed = <<>> THEN [err |-> FALSE, val |-> lts]
    ELSE LET p == Head(parsed)
             timestamp == timeParse(p.Lt_dts)
             price == ParseFloat(p.L)
             change == IF p.C # "" THEN ParseFloat(p.C) ELSE [ok |-> TRUE, v |-> 0]
             percent == IF p.Cp # "" THEN ParseFloat(p.Cp) ELSE [ok |-> TRUE, v |-> 0]
         IN  IF ~timestamp.ok \/ ~price.ok \/ ~change.ok \/ ~percent.ok THEN Failed
             ELSE liveLoop(Tail(parsed),
                           Append(lts, [symbol |-> p.T,
                                        timestamp |-> timestamp.v,
                                        price |-> price.v,
                                        change |-> change.v,
                                        percentChange |->
                                            IF p.Cp # "" THEN Quot(percent.v, 100)
                                            ELSE ZeroQuot]))

\* src/tradingsession.go:291-375 getLiveTradingSessions
getLiveTradingSessions(resp) ==
    IF resp.status # "ok" \/ Len(resp.parsed) = 0 THEN Failed
    ELSE liveLoop(resp.parsed, <<>>)

\* src/tradinghistory.go:275-345 getRealTimeTradingData: the first entry only,
\* each of its four fields parsed.
getRealTimeTradingData(resp) ==
    IF resp.status # "ok" \/ Len(resp.parsed) = 0 THEN Failed
    ELSE LET p == resp.parsed[1]
             timestamp == timeParse(p.Lt_dts)
             price == ParseFloat(p.L)
             change == ParseFloat(p.C)
             percentChange == ParseFloat(p.Cp)
         IN  IF ~timestamp.ok \/ ~price.ok \/ ~change.ok \/ ~percentChange.ok THEN Failed
             ELSE [err |-> FALSE,
                   val |-> <<[timestamp |-> timestamp.v,
                              price |-> price.v,
                              change |-> change.v,
                              percentChange |-> Quot(percentChange.v, 1)]>>]

InitQuote ==
    /\ IngestAtRest
    /\ ProgramAtRest
    /\ call = ""
    /\ arg \in Responses(MaxEntries)
    /\ ret = <<>>
    /\ ClockAtRest

CallLiveTradingSessions ==
    /\ call = ""
    /\ call' = "getLiveTradingSessions"
    /\ ret' = getLiveTradingSessions(arg)
    /\ UNCHANGED <<ingestVars, boardVars, uiVars, cycleVars, runVars, saves, config, logged, arg, symbolOffset, sizeVars, clockVars>>

CallRealTimeTradingData ==
    /\ call = ""
    /\ call' = "getRealTimeTradingData"
    /\ ret' = getRealTimeTradingData(arg)
    /\ UNCHANGED <<ingestVars, boardVars, uiVars, cycleVars, runVars, saves, config, logged, arg, symbolOffset, sizeVars, clockVars>>

NextQuote == CallLiveTradingSessions \/ CallRealTimeTradingData

SpecQuote == InitQuote /\ [][NextQuote]_vars

\* An entry that parses when its empty change fields are read as missing.
ParsesButForEmpty(p) ==
    /\ timeParse(p.Lt_dts).ok
    /\ ParseFloat(p.L).ok
    /\ p.C = "" \/ ParseFloat(p.C).ok
    /\ p.Cp = "" \/ ParseFloat(p.Cp).ok

\* The entries a call answers for: all of them, or the first.
Answered ==
    IF call = "getRealTimeTradingData" THEN SubSeq(arg.parsed, 1, 1) ELSE arg.parsed

\* The call returned no error and a quote for every entry it answers for, with
\* 0 where the entry's change string or percent string is empty.
EmptyChangeIsZero ==
    /\ ~ret.err
    /\ Len(ret.val) = Len(Answered)
    /\ \A i \in 1..Len(Answered) :
        /\ ret.val[i].price = ParseFloat(Answered[i].L).v
        /\ Answered[i].C = "" => ret.val[i].change = 0
        /\ Answered[i].Cp = "" => ret.val[i].percentChange = ZeroQuot

\* C14: a live-quote fetch whose response has entries with an empty change
\* string or an empty percent string, and nothing else wrong, returns no
\* error, 0 in those fields, and the quotes of all its entries.
C14_EmptyChangeIsZero ==
    (/\ call # ""
     /\ arg.status = "ok"
     /\ Len(arg.parsed) > 0
     /\ \A i \in 1..Len(arg.parsed) : ParsesButForEmpty(arg.parsed[i]))
        => EmptyChangeIsZero

\* The same of getLiveTradingSessions alone.
LiveEmptyChangeIsZero ==
    call = "getLiveTradingSessions" => C14_EmptyChangeIsZero

(***************************************************************************)
(* The market hours.  A time.Time is an instant, in minutes since          *)
(* 1970-01-01 00:00 UTC (a Thursday), and the offset in minutes of the     *)
(* location it is given in.  New York is on Eastern Standard Time during   *)
(* the days of the model.  SpecHours calls isMarketOpen on every minute of *)
(* MaxDays days, given in each of Zones.                                   *)
(***************************************************************************)

MaxDays == 7

MinutesPerDay == 1440

\* The offset of America/New_York, UTC-5.
newYorkLoc == 0 - 300

\* The offsets of UTC, New York and Tokyo.
Zones == {0, newYorkLoc, 540}

\* The instants of the model start on Friday 1970-01-02 00:00 in New York.
Instants == {MinutesPerDay - newYorkLoc + m : m \in 0..(MaxDays * MinutesPerDay - 1)}

\* time.Time.In(loc) as the identity.
In_given(t, loc) == t

\* time.Time.In(loc): the same instant, given in loc.
In(t, loc) == [instant |-> t.instant, loc |-> loc]

\* The minutes on the wall clock of the location of t since 1970-01-01 00:00.
Wall(t) == t.instant + t.loc

\* time.Time.Weekday(): Sunday is 0.
Weekday(t) == ((Wall(t) \div MinutesPerDay) + 4) % 7

Saturday == 6
Sunday == 0

\* time.Date(t.Year(), t.Month(), t.Day(), hour, min, 0, 0, loc)
DateAt(t, hour, min, loc) ==
    [instant |-> (Wall(t) \div MinutesPerDay) * MinutesPerDay + 60 * hour + min - loc,
     loc |-> loc]

\* src/time.go:11-29 isMarketOpen
isMarketOpen(given) ==
    LET now == In(given, newYorkLoc)
        opening == DateAt(now, 9, 30, newYorkLoc)
        closing == DateAt(now, 12 + 4, 0, newYorkLoc)
    IN  IF Weekday(now) = Saturday \/ Weekday(now) = Sunday THEN FALSE
        ELSE IF now.instant < opening.instant THEN FALSE
        ELSE IF now.instant > closing.instant THEN FALSE
        ELSE TRUE

InitHours ==
    /\ IngestAtRest
    /\ ProgramAtRest
    /\ call = ""
    /\ arg \in [instant : Instants, loc : Zones]
    /\ ret = <<>>
    /\ ClockAtRest

CallIsMarketOpen ==
    /\ call = ""
    /\ call' = "isMarketOpen"
    /\ ret' = isMarketOpen(arg)
    /\ UNCHANGED <<ingestVars, boardVars, uiVars, cycleVars, runVars, saves, config, logged, arg, symbolOffset, sizeVars, clockVars>>

NextHours == CallIsMarketOpen

SpecHours == InitHours /\ [][NextHours]_vars

\* The day of the week and the minute of the day in New York of the instant
\* of the call.
NewYorkDay == (((arg.instant - 300) \div 1440) + 4) % 7
NewYorkMinute == (arg.instant - 300) % 1440

\* C16: isMarketOpen is true exactly when New York has Monday to Friday and a
\* time of day from 09:30 to 16:00, both included, whatever the location the
\* instant is given in.
C16_MarketHours ==
    call = "isMarketOpen" =>
        (ret <=> (/\ NewYorkDay \in 1..5
                  /\ NewYorkMinute >= 9 * 60 + 30
                  /\ NewYorkMinute <= 16 * 60))

\* Monday 16:00 in New York, given in Tokyo where it is Tuesday 06:00.
C16_Witness ==
    /\ call = "isMarketOpen"
    /\ arg.loc = 540
    /\ NewYorkDay = 1
    /\ NewYorkMinute = 16 * 60
    /\ ret

(***************************************************************************)
(* The frame.  SpecFrame is the render loop on a terminal of every size of *)
(* Widths and Heights, with the keys that move the selection and the       *)
(* resizing of the terminal: a frame, one event, the frame after it.       *)
(***************************************************************************)

MaxFit == 3
MaxColumns == 3
MaxDates == 3

\* Heights too small for a row, and the least and the greatest height at
\* which 0..MaxFit rows fit.
Heights ==
    {0, tsColumnHeight}
    \cup {getY(r) + d : r \in 0..MaxFit, d \in {0, tsColumnHeight}}

\* The least and the greatest width at which tsColumnCount is 0..MaxColumns.
Widths ==
    {symbolColumnWidth + padding + (tsColumnWidth + padding) * c + d :
        c \in 0..MaxColumns, d \in {0, padding}}

\* src/ponzi.go:302-311: rows, no typed symbol, the first row drawn first.
InitFrame ==
    /\ IngestAtRest
    /\ refreshTime = 1
    /\ tradingDates \in {[i \in 1..k |-> DateOf(i)] : k \in 0..MaxDates}
    /\ stocks \in {[i \in 1..n |-> stock(IF i % 2 = 1 THEN "A" ELSE "B", loadedMap)] :
                      n \in 0..MaxRows}
    /\ inputSymbol = ""
    /\ selectedIndex \in 0..(IF Len(stocks) = 0 THEN 0 ELSE Len(stocks) - 1)
    /\ pc = [p \in Procs |-> IF p = "timer" THEN "idle" ELSE "render"]
    /\ NoCycle
    /\ writer = "none"
    /\ readers = {}
    /\ scm = [p \in Procs |-> [s \in Symbols |-> "off"]]
    /\ rc = [p \in Procs |-> "off"]
    /\ ich = [p \in Procs |-> "off"]
    /\ cur = [p \in Procs |-> ""]
    /\ im = [p \in Procs |-> 0]
    /\ got = [p \in Procs |-> [c \in Channels |-> <<>>]]
    /\ indices = 0
    /\ stable = board
    /\ events = MaxEvents - 1
    /\ SaveAtRest
    /\ CallAtRest
    /\ symbolOffset = 0
    /\ w \in Widths
    /\ h \in Heights
    /\ ClockAtRest

\* src/ponzi.go:495-496 and 362: PollEvent returns a resize event, and the next
\* frame reads the new size.
Resize ==
    /\ pc["ui"] = "poll"
    /\ \/ \E width \in Widths : w' = width /\ h' = h
       \/ \E height \in Heights : h' = height /\ w' = w
    /\ pc' = [pc EXCEPT !["ui"] = "render"]
    /\ events < MaxEvents
    /\ events' = events + 1
    /\ UNCHANGED <<oneSymbol, onlyRealTimeData, symbols, dates, tsm, rds, ingestVars,
                   boardVars, uiVars, lockVars, taskVars, cur, im, got, indices, stable,
                   saves, symbolOffset, config, logged, callVars, clockVars>>

NextFrame ==
    \/ RLockRender \/ Paint \/ UnlockEdit
    \/ Repaint \/ Resize \/ RunKeyDelete
    \/ \E alt \in BOOLEAN : RunKeyArrowUp(alt) \/ RunKeyArrowDown(alt)

SpecFrame == InitFrame /\ [][NextFrame]_vars

\* The rows that fit the height h.
RowsThatFit == IF h < 10 THEN 0 ELSE (h - 5) \div 5

\* C15: with rows on the board and a height that fits R >= 1 rows, after the
\* scroll adjustment of a frame the selected row is one of the R rows of the
\* window and is drawn; when it was below the window the offset has grown to
\* the first value at which it is the last row of the window.
C15_SelectedRowIsVisible ==
    [][(Paint /\ Len(stocks) > 0 /\ RowsThatFit >= 1) =>
         LET R == RowsThatFit
             row == selectedIndex - symbolOffset'
         IN  /\ row >= 0
             /\ row <= R - 1
             /\ getY(row) >= startY
             /\ getY(row) + tsColumnHeight <= h
             /\ \E i \in 1..Len(drawnRows(Len(stocks), symbolOffset', 0, h)) :
                    drawnRows(Len(stocks), symbolOffset', 0, h)[i] = selectedIndex
             /\ (selectedIndex - symbolOffset >= R) =>
                    /\ symbolOffset' > symbolOffset
                    /\ symbolOffset' = selectedIndex - R + 1]_vars

\* The third of three rows is selected and one row fits: the offset went from
\* the first row to the third.
C15_Witness ==
    /\ pc["ui"] = "poll"
    /\ Len(stocks) = 3
    /\ selectedIndex = 2
    /\ h = 10
    /\ symbolOffset = 2

\* The date columns that fit the width w after the symbol column.
ColumnsThatFit == IF w < 16 THEN 0 ELSE (w - 7) \div 9

\* The last n elements of the sequence ds.
Last(ds, n) == SubSeq(ds, Len(ds) - n + 1, Len(ds))

\* C19: in every frame the dates printed at the top and in the rows are the
\* last N known dates, oldest first, N the lesser of the columns that fit the
\* width and the known dates.
C19_NewestDatesAreDrawn ==
    [][Paint =>
         LET N == IF ColumnsThatFit < Len(tradingDates) THEN ColumnsThatFit
                  ELSE Len(tradingDates)
         IN  /\ headerDates(tradingDates, w) = Last(tradingDates, N)
             /\ rowDates(tradingDates, w) = Last(tradingDates, N)]_vars

(***************************************************************************)
(* The refresh goroutine and its timers (src/ponzi.go:313-353).  The clock *)
(* is the minute of the hour.  Each round of the loop arms two new timers, *)
(* time.After(refreshDuration) and time.After(5 * time.Minute), and takes  *)
(* the one that fires first; time does not pass a timer that is due.       *)
(* SpecTimer is the goroutine alone with the cycles it calls, on a board   *)
(* without rows (the loop never reads them); in SpecTimerFair time passes, *)
(* due timers fire and calls return.                                       *)
(***************************************************************************)

\* src/ponzi.go:322: 1 * time.Hour, in minutes.
HourMinutes == 60

\* src/ponzi.go:346: 5 * time.Minute
LiveMinutes == 5

\* src/ponzi.go:319-324 getNextRefreshDuration:
\* now.Add(1 * time.Hour).Truncate(time.Hour).Sub(now)
getNextRefreshDuration(minute) ==
    (((minute + HourMinutes) \div HourMinutes) * HourMinutes) - minute

InitTimer ==
    /\ IngestAtRest
    /\ refreshTime = 0
    /\ tradingDates = <<>>
    /\ stocks = <<>>
    /\ inputSymbol = ""
    /\ selectedIndex = 0
    /\ pc = [p \in Procs |-> IF p = "timer" THEN "boot" ELSE "idle"]
    /\ NoCycle
    /\ RunAtRest
    /\ SaveAtRest
    /\ CallAtRest
    /\ ViewAtRest
    /\ clock \in 0..(HourMinutes - 1)
    /\ refreshDuration = 0
    /\ waited = 0
    /\ loopAt = "boot"

\* src/ponzi.go:328 and 348: the goroutine calls refreshStockData(sd, "", live)
\* from the place at of its loop.
CallFromLoop(at, live) ==
    /\ pc' = [pc EXCEPT !["timer"] = "queued"]
    /\ oneSymbol' = [oneSymbol EXCEPT !["timer"] = ""]
    /\ onlyRealTimeData' = [onlyRealTimeData EXCEPT !["timer"] = live]
    /\ symbols' = [symbols EXCEPT !["timer"] = queueRequests(<<>>, SymbolsOf(stocks))]
    /\ loopAt' = at
    /\ waited' = 0
    /\ UNCHANGED <<dates, tsm, rds, ingestVars, saves, symbolOffset, config, logged,
                   callVars, sizeVars, clock, refreshDuration, runVars, boardVars, uiVars>>

\* src/ponzi.go:337-338: the initial refresh().
BootRefresh ==
    /\ loopAt = "boot"
    /\ CallFromLoop("refresh", FALSE)

\* src/ponzi.go:343-344: time.After(refreshDuration) fired, refresh().
HourFires ==
    /\ loopAt = "select"
    /\ waited >= refreshDuration
    /\ CallFromLoop("refresh", FALSE)

\* src/ponzi.go:346-350: time.After(5 * time.Minute) fired; outside market
\* hours the loop goes round.
LiveFires(open) ==
    /\ loopAt = "select"
    /\ waited >= LiveMinutes
    /\ IF open THEN CallFromLoop("live", TRUE)
       ELSE /\ waited' = 0
            /\ UNCHANGED <<ingestVars, boardVars, uiVars, cycleVars, runVars, saves,
                           symbolOffset, config, logged, callVars, sizeVars, clock,
                           refreshDuration, loopAt>>

\* src/ponzi.go:330-334: refreshStockData returned; termbox.Interrupt() and
\* refreshDuration = getNextRefreshDuration(); the select arms its timers.
AfterRefresh ==
    /\ loopAt = "refresh"
    /\ pc["timer"] = "idle"
    /\ refreshDuration' = getNextRefreshDuration(clock)
    /\ loopAt' = "select"
    /\ waited' = 0
    /\ UNCHANGED <<ingestVars, boardVars, uiVars, cycleVars, runVars, saves, symbolOffset,
                   config, logged, callVars, sizeVars, clock>>

\* src/ponzi.go:348-349: the live refreshStockData returned;
\* termbox.Interrupt(); the select arms its timers, refreshDuration as it was.
AfterLive ==
    /\ loopAt = "live"
    /\ pc["timer"] = "idle"
    /\ loopAt' = "select"
    /\ waited' = 0
    /\ UNCHANGED <<ingestVars, boardVars, uiVars, cycleVars, runVars, saves, symbolOffset,
                   config, logged, callVars, sizeVars, clock, refreshDuration>>

\* A minute passes, while refreshStockData is under way or while no timer of
\* the select is due.
Tick ==
    /\ \/ loopAt \in {"refresh", "live"} /\ pc["timer"] # "idle"
       \/ loopAt = "select" /\ waited < refreshDuration /\ waited < LiveMinutes
    /\ clock' = (clock + 1) % HourMinutes
    /\ waited' = IF loopAt = "select" THEN waited + 1 ELSE waited
    /\ UNCHANGED <<ingestVars, boardVars, uiVars, cycleVars, runVars, saves, symbolOffset,
                   config, logged, callVars, sizeVars, refreshDuration, loopAt>>

TimerCycleSteps ==
    \/ ReadPrevDates("timer") \/ GatherHistory("timer") \/ GatherLive("timer")
    \/ Commit("timer") \/ Return("timer")

NextTimer ==
    \/ BootRefresh \/ HourFires \/ AfterRefresh \/ AfterLive \/ Tick
    \/ \E open \in BOOLEAN : LiveFires(open)
    \/ TimerCycleSteps

SpecTimer == InitTimer /\ [][NextTimer]_vars

\* Time passes, a timer that is due fires, and a call of refreshStockData
\* goes on to its return.
TimerFairness ==
    /\ WF_vars(Tick)
    /\ WF_vars(BootRefresh)
    /\ SF_vars(HourFires)
    /\ WF_vars(\E open \in BOOLEAN : LiveFires(open))
    /\ WF_vars(AfterRefresh)
    /\ WF_vars(AfterLive)
    /\ WF_vars(TimerCycleSteps)

SpecTimerFair == SpecTimer /\ TimerFairness

\* After every refresh() the delay is the time to the next hour boundary.
DelayIsToNextHour ==
    [][AfterRefresh =>
         /\ refreshDuration' > 0
         /\ refreshDuration' <= 60
         /\ (clock + refreshDuration') % 60 = 0]_vars

\* C21: whenever the goroutine waits in its select, the hour timer fires and
\* refresh() runs again.
C21_HourlyRefreshFires == (loopAt = "select") ~> (loopAt = "refresh")

(***************************************************************************)
(* The dates of the board over cycles that gather several histories: the   *)
(* timer's cycles, one after the other, on boards of up to MaxHistories    *)
(* rows.                                                                   *)
(***************************************************************************)

MaxHistories == 2

InitDates ==
    /\ IngestAtRest
    /\ refreshTime = 0
    /\ tradingDates = <<>>
    /\ stocks \in {[i \in 1..Len(cfg) |-> stock(cfg[i], NoMap)] :
                      cfg \in SeqsUpTo(Symbols, MaxHistories)}
    /\ inputSymbol = ""
    /\ selectedIndex = 0
    /\ pc = [p \in Procs |-> IF p = "timer" THEN "boot" ELSE "idle"]
    /\ NoCycle
    /\ RunAtRest
    /\ SaveAtRest
    /\ ViewAtRest
    /\ CallAtRest
    /\ ClockAtRest

NextDates == TimerRefresh \/ TimerLive \/ TimerCycleSteps

SpecDates == InitDates /\ [][NextDates]_vars

\* C22: the dates of the board are strictly ascending, so sorted and without
\* a duplicate, in every state.
C22_DatesStrictlyAscending ==
    \A i, j \in 1..Len(tradingDates) : i < j => tradingDates[i] < tradingDates[j]

\* A cycle has merged and sorted, for its commit, a date that the previous
\* snapshot, the histories of two symbols and a live quote all reported.
C22_Witness ==
    /\ pc["timer"] = "gathered"
    /\ Len(symbols["timer"]) >= 2
    /\ Len(dates["timer"]) >= 2
    /\ \E d \in Range(tradingDates) :
       \E i \in 1..Len(rds["timer"]) :
        /\ midnight(rds["timer"][i].timestamp) = d
        /\ \A sym \in Range(symbols["timer"]) :
            /\ d \in DOMAIN tsm["timer"][sym]
            /\ tsm["timer"][sym][d] # liveSession(rds["timer"][i])

\* C25: a commit whose index fetch failed leaves the quotes of the indices
\* as the previous cycle committed them.
C25_FailedIndexFetchKeepsQuotes ==
    [][\A p \in Procs : (WriteIndices(p) /\ im[p] = 0) => indices' = indices]_vars

\* A session that the merge made of a live quote (src/ponzi.go:672-677): of
\* the sessions of the model only these have no volume.
FromLiveQuote(ts) ==
    \E sym \in Symbols, t \in QuoteTimes : ts = liveSession(realTimeTradingData(sym, t))

\* C28: a session of a row that came from a history fetch is not replaced,
\* by any later commit, with a session made of a live quote of its date.
C28_HistoryOutlivesLiveQuotes ==
    [][\A i \in 1..Len(stocks) :
         \A d \in DOMAIN stocks[i].tradingSessionMap :
            (/\ i <= Len(stocks')
             /\ stocks'[i].symbol = stocks[i].symbol
             /\ ~FromLiveQuote(stocks[i].tradingSessionMap[d]))
            => ~FromLiveQuote(stocks'[i].tradingSessionMap[d])]_vars

\* src/ponzi.go:414-419: with the offset off, the selected row is neither
\* above the window nor are its lines below the height.
RowInside(off) ==
    /\ getY(selectedIndex - off) >= startY
    /\ getY(selectedIndex - off + 1) <= h

\* What the scroll adjustment of a frame may do to the offset: nothing when
\* the selected row is inside, and else the fewest steps that bring it inside,
\* to the last row of the window going down, to the first going up.
MinimalScroll ==
    /\ RowInside(symbolOffset) => symbolOffset' = symbolOffset
    /\ ~RowInside(symbolOffset) =>
        /\ RowInside(symbolOffset')
        /\ \A o \in 0..MaxRows :
            RowInside(o) => (IF o >= symbolOffset THEN o - symbolOffset ELSE symbolOffset - o)
                                >= (IF symbolOffset' >= symbolOffset
                                    THEN symbolOffset' - symbolOffset
                                    ELSE symbolOffset - symbolOffset')
    /\ symbolOffset' > symbolOffset => getY(selectedIndex - symbolOffset' + 2) > h
    /\ symbolOffset' < symbolOffset => selectedIndex = symbolOffset'

\* On a terminal where a row fits, the adjustment is the least one.
ScrollIsMinimalWhenARowFits == [][(Paint /\ RowsThatFit >= 1) => MinimalScroll]_vars

\* C29: the scroll adjustment of a frame leaves the offset alone when the
\* selected row is inside the window, and else moves it by the fewest
\* single-row steps that bring the row inside, and its loops end.
C29_ScrollIsMinimal == [][Paint => MinimalScroll]_vars

(***************************************************************************)
(* The lock and the I/O.  SpecLock is SpecRun with the arrow-down key and   *)
(* with the goroutines of saveStockData, which write the config file.      *)
(***************************************************************************)

InitLock ==
    /\ IngestAtRest
    /\ refreshTime = 0
    /\ tradingDates = <<>>
    /\ stocks = <<stock("A", NoMap)>>
    /\ inputSymbol = ""
    /\ selectedIndex = 0
    /\ pc = [p \in Procs |-> IF p = "timer" THEN "boot" ELSE "render"]
    /\ NoCycle
    /\ writer = "none"
    /\ readers = {}
    /\ scm = [p \in Procs |-> [s \in Symbols |-> "off"]]
    /\ rc = [p \in Procs |-> "off"]
    /\ ich = [p \in Procs |-> "off"]
    /\ cur = [p \in Procs |-> ""]
    /\ im = [p \in Procs |-> 0]
    /\ got = [p \in Procs |-> [c \in Channels |-> <<>>]]
    /\ indices = 0
    /\ stable = board
    /\ events = MaxEvents - 1
    /\ config = SymbolsOf(stocks)
    /\ saves = <<>>
    /\ logged = FALSE
    /\ ViewAtRest
    /\ CallAtRest
    /\ ClockAtRest

NextLock ==
    \/ NextRun
    \/ \E alt \in BOOLEAN : RunKeyArrowDown(alt)
    \/ \E i \in 1..MaxSaves, outcome \in SaveOutcomes : SaveConfig(i, outcome)

SpecLock == InitLock /\ [][NextLock]_vars

\* sd.RLock() or sd.Lock() has returned to thread p, and the unlock has not.
HoldsLock(p) == writer = p \/ p \in readers

\* Where a thread waits for the network, the config file or the terminal:
\* src/ponzi.go:658 <-ch, 668 <-rc, part_002:820 <-ich, and 492-495
\* termbox.Flush and termbox.PollEvent.
IOPositions == {"range", "recvIndex", "poll"}

\* C23: a thread that holds the lock of the board, shared or exclusive, is
\* not waiting for a fetch, a file or the terminal, and the unlock of an edit
\* can be taken whatever the save goroutines have done.
C23_NoIOUnderLock ==
    /\ \A p \in Procs : HoldsLock(p) => pc[p] \notin IOPositions
    /\ pc["ui"] = "unlockEdit" => ENABLED UnlockEdit
    /\ pc["ui"] = "unlockInsert" => ENABLED UnlockInsert

\* The edit of Alt-Down holds the write lock while the goroutine of its save
\* has yet to write the file, and the timer's cycle waits for its fetch results.
C23_Witness ==
    /\ writer = "ui"
    /\ saves # <<>>
    /\ pc["timer"] = "range"

(***************************************************************************)
(* The input buffer and the keys that read it.  SpecInput is the UI thread *)
(* on every loaded board with the buffer empty or holding a ticker, one    *)
(* key away from Ctrl-R or Enter, with the save goroutines.                *)
(***************************************************************************)

\* src/ponzi.go:535-540: Enter; with a symbol in the buffer, Lock, and a
\* blank row is appended.
RunEnter ==
    /\ pc["ui"] = "poll"
    /\ events < MaxEvents
    /\ events' = events + 1
    /\ IF inputSymbol # ""
       THEN /\ CanLock
            /\ writer' = "ui"
            /\ stocks' = Append(stocks, stock("", NoMap))
            /\ pc' = [pc EXCEPT !["ui"] = "shift"]
       ELSE /\ pc' = [pc EXCEPT !["ui"] = "render"]
            /\ UNCHANGED <<writer, stocks>>
    /\ UNCHANGED <<oneSymbol, onlyRealTimeData, symbols, dates, tsm, rds, ingestVars, saves,
                   symbolOffset, restVars, refreshTime, tradingDates, uiVars, readers,
                   taskVars, cur, im, got, indices, stable>>

\* The longest list that a key of SpecInput finds.
MaxListed == 2

InitInput ==
    /\ IngestAtRest
    /\ refreshTime = 1
    /\ tradingDates = <<DateOf(1), DateOf(2)>>
    /\ stocks \in SeqsUpTo(LoadedRows, MaxListed)
    /\ inputSymbol \in {""} \cup Symbols
    /\ selectedIndex \in 0..(IF Len(stocks) = 0 THEN 0 ELSE Len(stocks) - 1)
    /\ pc = [p \in Procs |-> IF p = "timer" THEN "idle" ELSE "render"]
    /\ NoCycle
    /\ writer = "none"
    /\ readers = {}
    /\ scm = [p \in Procs |-> [s \in Symbols |-> "off"]]
    /\ rc = [p \in Procs |-> "off"]
    /\ ich = [p \in Procs |-> "off"]
    /\ cur = [p \in Procs |-> ""]
    /\ im = [p \in Procs |-> 0]
    /\ got = [p \in Procs |-> [c \in Channels |-> <<>>]]
    /\ indices = 0
    /\ stable = board
    /\ events = MaxEvents - 1
    /\ config = SymbolsOf(stocks)
    /\ saves = <<>>
    /\ logged = FALSE
    /\ ViewAtRest
    /\ CallAtRest
    /\ ClockAtRest

NextInput ==
    \/ Repaint \/ RunKeyCtrlR \/ RunEnter
    \/ RLockRender \/ Paint \/ ShiftRows \/ WriteSlot \/ UnlockInsert
    \/ Locks("ui") \/ Steps("ui")
    \/ \E i \in 1..MaxSaves, outcome \in SaveOutcomes : SaveConfig(i, outcome)

SpecInput == InitInput /\ [][NextInput]_vars

\* The UI thread is in the refreshStockData that Ctrl-R called.
CtrlRCall ==
    /\ pc["ui"] \in {"call", "symbols", "rlockDates", "dates", "range", "recvIndex", "lock",
                     "refreshTime", "tradingDates", "stocks", "indices", "unlock", "ret"}
    /\ oneSymbol["ui"] = ""

\* C26: Ctrl-R calls one full refresh, whatever the buffer holds, and from
\* the key to the return of the call the buffer, the selection, the scroll
\* offset and the symbols of the rows in their order stay as they were.
C26_CtrlRKeepsView ==
    [][/\ RunKeyCtrlR =>
            /\ pc'["ui"] = "call"
            /\ oneSymbol'["ui"] = ""
            /\ ~onlyRealTimeData'["ui"]
       /\ (CtrlRCall /\ pc["ui"] = "ret") => pc'["ui"] = "render"
       /\ (RunKeyCtrlR \/ (CtrlRCall /\ pc'["ui"] # pc["ui"])) =>
            /\ inputSymbol' = inputSymbol
            /\ selectedIndex' = selectedIndex
            /\ symbolOffset' = symbolOffset
            /\ SymbolsOf(stocks') = SymbolsOf(stocks)]_vars

\* The refresh of Ctrl-R has committed and returns, with a ticker in the
\* buffer and the second row selected.
C26_Witness ==
    /\ CtrlRCall
    /\ pc["ui"] = "ret"
    /\ inputSymbol # ""
    /\ selectedIndex > 0
    /\ Len(stocks) > 1

\* A fetch under way returns, the steps of the handlers and of
\* refreshStockData are taken, and a thread that calls for the lock gets it.
SpecInputFair == SpecInput /\ Fairness

\* The UI thread is in the refreshStockData that Enter called, after the
\* launches of its goroutines.
EnterCall ==
    /\ pc["ui"] \in {"rlockDates", "dates", "range", "recvIndex", "lock", "refreshTime",
                     "tradingDates", "stocks", "indices", "unlock", "ret"}
    /\ oneSymbol["ui"] # ""

\* Enter with an empty buffer: the next frame, and nothing else.
EnterOnEmpty ==
    [][(RunEnter /\ inputSymbol = "") =>
         /\ pc'["ui"] = "render"
         /\ UNCHANGED <<boardVars, uiVars, saves, config, taskVars, symbols, oneSymbol>>]_vars

\* Enter with X in the buffer: at the unlock the list with X at the selection
\* is handed to one save, and one call for X alone follows.
EnterSavesAndCalls ==
    [][UnlockInsert =>
         /\ stocks[selectedIndex + 1].symbol = inputSymbol
         /\ saves' = Append(saves, SymbolsOf(stocks))
         /\ pc'["ui"] = "call"
         /\ oneSymbol'["ui"] = inputSymbol
         /\ ~onlyRealTimeData'["ui"]]_vars

\* In the call of Enter one history fetch and the live call are under way or
\* done, both for X alone.
EnterFetchesOne ==
    EnterCall =>
        /\ inputSymbol = oneSymbol["ui"]
        /\ symbols["ui"] = <<inputSymbol>>
        /\ \A s \in Symbols :
            /\ (scm["ui"][s] # "off") <=> (s = inputSymbol)
            /\ Len(got["ui"][s]) <= 1
        /\ rc["ui"] \in {"fetching", "done"}
        /\ Len(got["ui"]["rc"]) <= 1

\* The steps of the call of Enter leave the rows of other symbols, the order
\* of the rows and the selection alone, start no save, and the return empties
\* the buffer and leads to the next frame.
EnterCallSteps ==
    [][(EnterCall /\ pc'["ui"] # pc["ui"]) =>
         /\ SymbolsOf(stocks') = SymbolsOf(stocks)
         /\ \A i \in 1..Len(stocks) :
                stocks[i].symbol # oneSymbol["ui"] => stocks'[i] = stocks[i]
         /\ selectedIndex' = selectedIndex
         /\ saves' = saves
         /\ IF pc["ui"] = "ret"
            THEN inputSymbol' = "" /\ pc'["ui"] = "render"
            ELSE inputSymbol' = inputSymbol]_vars

\* C27: Enter with X in the buffer saves the new list, runs one refresh for
\* X alone that leaves the rows of other symbols as they were, and ends with
\* the buffer empty; Enter with an empty buffer changes nothing, saves
\* nothing and refreshes nothing.
C27_EnterAddsAndRefreshesOne ==
    /\ EnterOnEmpty
    /\ EnterSavesAndCalls
    /\ []EnterFetchesOne
    /\ EnterCallSteps
    /\ (pc["ui"] = "shift") ~> (pc["ui"] = "render" /\ inputSymbol = "")

\* The call of Enter with B in the buffer has committed the fetched sessions
\* of B next to a loaded row of A, and the save of the new list is under way.
C27_Witness ==
    /\ EnterCall
    /\ pc["ui"] = "ret"
    /\ inputSymbol = "B"
    /\ got["ui"]["B"] = <<"ok">>
    /\ saves = <<SymbolsOf(stocks)>>
    /\ \E i \in 1..Len(stocks) :
        /\ stocks[i].symbol = "A"
        /\ stocks[i].tradingSessionMap = loadedMap

(***************************************************************************)
(* Typing.  In SpecType the buffer is the sequence of the bytes of the Go  *)
(* string, and a key brings a rune: SpecType is one frame, Backspace or a  *)
(* key with a character, and the next frame, on every buffer of at most    *)
(* MaxTyped typed runes.                                                   *)
(***************************************************************************)

MaxTyped == 2

\* The runes of the keys: 'a', 'B', U+00E9 (e with acute accent), and 0, the
\* Ch of a key event that carries no character.
Runes == {97, 66, 233, 0}

\* unicode.ToUpper on the runes of Latin-1 (strings.ToUpper, src/ponzi.go:569).
ToUpper(r) ==
    IF r \in 97..122 \/ (r \in 224..254 /\ r # 247) THEN r - 32 ELSE r

\* string(rune) (src/ponzi.go:569): the UTF-8 bytes of a rune below U+0800.
EncodeRune(r) ==
    IF r < 128 THEN <<r>> ELSE <<192 + (r \div 64), 128 + (r % 64)>>

\* The character that a frame shows in the place of bytes that are no UTF-8.
RuneError == 65533

\* src/ponzi.go:364-368: the characters of the buffer as `range` over the
\* string yields them, which is how the frame prints the buffer.
RECURSIVE DecodeRunes(_)
DecodeRunes(b) ==
    IF b = <<>> THEN <<>>
    ELSE IF b[1] < 128 THEN <<b[1]>> \o DecodeRunes(Tail(b))
    ELSE IF b[1] \in 194..223 /\ Len(b) >= 2 /\ b[2] \in 128..191
         THEN <<(b[1] - 192) * 64 + (b[2] - 128)>> \o DecodeRunes(Tail(Tail(b)))
    ELSE <<RuneError>> \o DecodeRunes(Tail(b))

\* The buffers that at most n keys with a character leave.
RECURSIVE Typed(_)
Typed(n) ==
    IF n = 0 THEN {<<>>}
    ELSE Typed(n - 1) \cup
         {b \o EncodeRune(ToUpper(r)) : b \in Typed(n - 1), r \in Runes}

\* src/ponzi.go:563-566: Backspace.
RunKeyBackspace ==
    /\ pc["ui"] = "poll"
    /\ events < MaxEvents
    /\ events' = events + 1
    /\ inputSymbol' =
        IF Len(inputSymbol) > 0
        THEN SubSeq(inputSymbol, 1, Len(inputSymbol) - 1)
        ELSE inputSymbol
    /\ pc' = [pc EXCEPT !["ui"] = "render"]
    /\ UNCHANGED <<oneSymbol, onlyRealTimeData, symbols, dates, tsm, rds, ingestVars, saves,
                   symbolOffset, restVars, boardVars, selectedIndex, lockVars, taskVars,
                   cur, im, got, indices, stable>>

\* src/ponzi.go:568-569: a key that no other case takes, with the rune r.
RunKeyCh(r) ==
    /\ pc["ui"] = "poll"
    /\ events < MaxEvents
    /\ events' = events + 1
    /\ inputSymbol' = inputSymbol \o EncodeRune(ToUpper(r))
    /\ pc' = [pc EXCEPT !["ui"] = "render"]
    /\ UNCHANGED <<oneSymbol, onlyRealTimeData, symbols, dates, tsm, rds, ingestVars, saves,
                   symbolOffset, restVars, boardVars, selectedIndex, lockVars, taskVars,
                   cur, im, got, indices, stable>>

InitType ==
    /\ IngestAtRest
    /\ refreshTime = 1
    /\ tradingDates = <<DateOf(1), DateOf(2)>>
    /\ stocks \in SeqsUpTo(LoadedRows, MaxListed)
    /\ inputSymbol \in Typed(MaxTyped)
    /\ selectedIndex \in 0..(IF Len(stocks) = 0 THEN 0 ELSE Len(stocks) - 1)
    /\ pc = [p \in Procs |-> IF p = "timer" THEN "idle" ELSE "render"]
    /\ NoCycle
    /\ writer = "none"
    /\ readers = {}
    /\ scm = [p \in Procs |-> [s \in Symbols |-> "off"]]
    /\ rc = [p \in Procs |-> "off"]
    /\ ich = [p \in Procs |-> "off"]
    /\ cur = [p \in Procs |-> ""]
    /\ im = [p \in Procs |-> 0]
    /\ got = [p \in Procs |-> [c \in Channels |-> <<>>]]
    /\ indices = 0
    /\ stable = board
    /\ events = MaxEvents - 1
    /\ config = SymbolsOf(stocks)
    /\ saves = <<>>
    /\ logged = FALSE
    /\ ViewAtRest
    /\ CallAtRest
    /\ ClockAtRest

NextType ==
    \/ RLockRender \/ Paint
    \/ RunKeyBackspace
    \/ \E r \in Runes : RunKeyCh(r)

SpecType == InitType /\ [][NextType]_vars

\* The sequence s without its last element.
Front(s) == SubSeq(s, 1, Len(s) - 1)

\* Backspace touches the buffer alone: the rows, their sessions, the
\* selection and the dates stay, no save and no refresh is started.
BackspaceKeepsBoard ==
    [][RunKeyBackspace =>
         /\ UNCHANGED <<boardVars, selectedIndex, saves, config, taskVars, symbols>>
         /\ pc'["ui"] = "render"
         /\ inputSymbol = <<>> => inputSymbol' = <<>>
         /\ inputSymbol # <<>> => Len(inputSymbol') = Len(inputSymbol) - 1]_vars

\* C30: Backspace removes the last character of a buffer that has one and
\* leaves an empty buffer empty; the rows, the selection and the sessions
\* stay, and no save and no refresh is started.
C30_BackspaceRemovesLastCharacter ==
    [][RunKeyBackspace =>
         /\ UNCHANGED <<boardVars, selectedIndex, saves, config, taskVars, symbols>>
         /\ pc'["ui"] = "render"
         /\ inputSymbol = <<>> => inputSymbol' = <<>>
         /\ inputSymbol # <<>> =>
                DecodeRunes(inputSymbol') = Front(DecodeRunes(inputSymbol))]_vars

\* C31: a key with a printable character that no other case takes appends
\* that one character (in the upper case the handler stores) to the buffer,
\* and a key event that carries no character leaves the buffer as it was, an
\* empty buffer empty.
C31_OnlyPrintableKeysType ==
    [][\A r \in Runes :
         RunKeyCh(r) =>
            IF r = 0
            THEN inputSymbol' = inputSymbol
            ELSE DecodeRunes(inputSymbol') =
                    Append(DecodeRunes(inputSymbol), ToUpper(r))]_vars

(***************************************************************************)
(* The colours of a cell (src/ponzi.go:443-484).  SpecColor draws the cell *)
(* of one date of a row whose map holds a session of that date or none,    *)
(* and a session of another date or none, on a terminal with or without    *)
(* 256 colours.  A percentChange is a number of hundredths.                *)
(***************************************************************************)

MaxPercent == 51

\* src/ponzi.go:207
colorCount == 5

\* src/ponzi.go:231-237 colorLevels, in hundredths.
colorLevels == <<0, 5, 10, 25, 50>>

\* math.Abs
Abs(x) == IF x < 0 THEN 0 - x ELSE x

\* The loop of the level with <= in the place of <.
RECURSIVE colorLevel_upTo(_, _)
colorLevel_upTo(c, absChange) ==
    IF c < colorCount - 1 /\ ~(absChange <= colorLevels[c + 2])
    THEN colorLevel_upTo(c + 1, absChange)
    ELSE c

\* src/ponzi.go:446-452: the loop from c on; colorLevels[c+1] of the source
\* is the element c + 2 of the sequence.
RECURSIVE colorLevel(_, _)
colorLevel(c, absChange) ==
    IF c < colorCount - 1 /\ ~(absChange < colorLevels[c + 2])
    THEN colorLevel(c + 1, absChange)
    ELSE c

\* src/ponzi.go:443-484: the cell of the date td of a row with the map m: the
\* level, the background, the foreground of the change lines, and the session
\* whose numbers are printed, none for a blank cell.
drawCell(m, td, has256Colors) ==
    IF td \in DOMAIN m
    THEN LET ts == m[td]
             c == colorLevel(0, Abs(ts.percentChange))
         IN  [c |-> c,
              bg |-> IF has256Colors /\ ts.change > 0 THEN <<"positiveColors", c>>
                     ELSE IF has256Colors /\ ts.change < 0 THEN <<"negativeColors", c>>
                     ELSE <<"ColorDefault", 0>>,
              fg |-> IF ts.change > 0 THEN "ColorGreen"
                     ELSE IF ts.change < 0 THEN "ColorRed"
                     ELSE "ColorDefault",
              printed |-> <<ts>>]
    ELSE [c |-> 0, bg |-> <<"placeholderColor", 0>>, fg |-> "ColorDefault",
          printed |-> <<>>]

\* The sessions of the cells: a change of either sign or none, a percentChange
\* of up to MaxPercent hundredths.
CellSessions ==
    [date : {DateOf(1)}, change : {0 - 1, 0, 1},
     percentChange : (0 - MaxPercent)..MaxPercent]

\* The session of the other date of the row.
otherSession == [date |-> DateOf(2), change |-> 1, percentChange |-> MaxPercent]

InitColor ==
    /\ IngestAtRest
    /\ ProgramAtRest
    /\ call = ""
    /\ \E here \in {<<>>} \cup {<<ts>> : ts \in CellSessions}, other \in BOOLEAN,
          colors \in BOOLEAN :
        arg = [m |-> [d \in (IF here = <<>> THEN {} ELSE {DateOf(1)})
                             \cup (IF other THEN {DateOf(2)} ELSE {}) |->
                         IF d = DateOf(1) THEN here[1] ELSE otherSession],
               td |-> DateOf(1),
               has256Colors |-> colors]
    /\ ret = <<>>
    /\ ClockAtRest

CallDrawCell ==
    /\ call = ""
    /\ call' = "drawCell"
    /\ ret' = drawCell(arg.m, arg.td, arg.has256Colors)
    /\ UNCHANGED <<ingestVars, boardVars, uiVars, cycleVars, runVars, saves, config, logged,
                   arg, symbolOffset, sizeVars, clockVars>>

NextColor == CallDrawCell

SpecColor == InitColor /\ [][NextColor]_vars

\* C32: the level of a cell with a session is the index of the largest
\* threshold of 0%, 5%, 10%, 25%, 50% that is at most |percentChange|, it is
\* one of 0..4 and no lower for a greater |percentChange|; the colours are
\* the positive ones for a change above 0, the negative ones for a change
\* below 0 and the default for no change; a cell without a session of its
\* date is the blank placeholder and shows no session, whatever other dates
\* the row has.
C32_CellColors ==
    call = "drawCell" =>
        IF arg.td \in DOMAIN arg.m
        THEN LET ts == arg.m[arg.td]
                 a == Abs(ts.percentChange)
             IN  /\ ret.c \in 0..4
                 /\ colorLevels[ret.c + 1] <= a
                 /\ \A k \in 1..colorCount : colorLevels[k] <= a => k - 1 <= ret.c
                 /\ \A q \in 0..MaxPercent : q >= a => colorLevel(0, q) >= ret.c
                 /\ ts.change > 0 =>
                        /\ ret.fg = "ColorGreen"
                        /\ arg.has256Colors => ret.bg = <<"positiveColors", ret.c>>
                 /\ ts.change < 0 =>
                        /\ ret.fg = "ColorRed"
                        /\ arg.has256Colors => ret.bg = <<"negativeColors", ret.c>>
                 /\ ts.change = 0 =>
                        /\ ret.fg = "ColorDefault"
                        /\ ret.bg = <<"ColorDefault", 0>>
                 /\ ret.printed = <<ts>>
        ELSE /\ ret.bg = <<"placeholderColor", 0>>
             /\ ret.printed = <<>>

\* A cell of -25% on 256 colours is drawn at level 3 of the negative colours,
\* next to a session of another date.
C32_Witness ==
    /\ call = "drawCell"
    /\ arg.has256Colors
    /\ DateOf(2) \in DOMAIN arg.m
    /\ arg.td \in DOMAIN arg.m
    /\ arg.m[arg.td].percentChange = 0 - 25
    /\ arg.m[arg.td].change < 0
    /\ ret.bg = <<"negativeColors", 3>>

(***************************************************************************)
(* The history fetch (src/tradingsession.go:78-281).  SpecFetch reads a    *)
(* CSV response of a header and up to MaxRecords rows, of six fields for   *)
(* Google and seven for Yahoo.  A field is the text of a date, of an       *)
(* integer, of a number with a fraction, or of none of these.              *)
(***************************************************************************)

MaxRecords == 2

field(kind, val) == [kind |-> kind, val |-> val]

\* time.Parse with the layout of the provider.
parseRecordTime(f) ==
    IF f.kind = "date" THEN [v |-> DateOf(f.val), err |-> "nil"]
    ELSE [v |-> 0, err |-> "time"]

\* strconv.ParseFloat takes the text of an integer too.
parseRecordFloat(f) ==
    IF f.kind \in {"int", "float"} THEN [v |-> f.val, err |-> "nil"]
    ELSE [v |-> 0, err |-> "syntax"]

\* strconv.ParseInt refuses a fraction.
parseRecordInt(f) ==
    IF f.kind = "int" THEN [v |-> f.val, err |-> "nil"]
    ELSE [v |-> 0, err |-> "syntax"]

\* The first error of a sequence of results, "nil" if there is none.
RECURSIVE firstErr(_)
firstErr(results) ==
    IF results = <<>> THEN "nil"
    ELSE IF Head(results).err # "nil" THEN Head(results).err
    ELSE firstErr(Tail(results))

\* src/tradingsession.go:132-160: the fields of a row in the order the code
\* parses them.
parseRecord(record) ==
    <<parseRecordTime(record[1]), parseRecordFloat(record[2]),
      parseRecordFloat(record[3]), parseRecordFloat(record[4]),
      parseRecordFloat(record[5]), parseRecordInt(record[6])>>

\* The read loop returning the rows read so far when a row fails.
RECURSIVE readRecords_keep(_, _, _, _)
readRecords_keep(body, fields, i, read) ==
    IF i > Len(body) THEN [tss |-> read, err |-> "nil"]
    ELSE IF Len(body[i]) # Len(body[1]) THEN [tss |-> read, err |-> "ErrFieldCount"]
    ELSE IF Len(body[i]) # fields THEN [tss |-> read, err |-> "record length"]
    ELSE IF i = 1 THEN readRecords_keep(body, fields, i + 1, read)
    ELSE LET parsed == parseRecord(body[i])
         IN  IF firstErr(parsed) # "nil" THEN [tss |-> read, err |-> firstErr(parsed)]
             ELSE readRecords_keep(body, fields, i + 1,
                     Append(read, [date |-> parsed[1].v, close |-> parsed[5].v,
                                   volume |-> parsed[6].v]))

\* src/tradingsession.go:104-171 and 206-275: the loop over the records from
\* the record i on.  csv.Reader refuses a record whose number of fields is not
\* that of the first record; the code refuses a number of fields that is not
\* the provider's; the first record is the header and is not parsed.
RECURSIVE readRecords(_, _, _, _)
readRecords(body, fields, i, read) ==
    IF i > Len(body) THEN [tss |-> read, err |-> "nil"]
    ELSE IF Len(body[i]) # Len(body[1]) THEN [tss |-> <<>>, err |-> "ErrFieldCount"]
    ELSE IF Len(body[i]) # fields THEN [tss |-> <<>>, err |-> "record length"]
    ELSE IF i = 1 THEN readRecords(body, fields, i + 1, read)
    ELSE LET parsed == parseRecord(body[i])
         IN  IF firstErr(parsed) # "nil" THEN [tss |-> <<>>, err |-> firstErr(parsed)]
             ELSE readRecords(body, fields, i + 1,
                     Append(read, [date |-> parsed[1].v, close |-> parsed[5].v,
                                   volume |-> parsed[6].v]))

\* src/tradingsession.go:114 and 216: the number of fields of a provider.
recordLength(provider) == IF provider = "google" THEN 6 ELSE 7

\* src/tradingsession.go:78-177 and 179-281.  sort.Reverse wraps the slice
\* and sorts nothing, so the sessions stay in the order of the response.
getTradingSessions(provider, body) ==
    readRecords(body, recordLength(provider), 1, <<>>)

\* A row of n fields for the day d and the close c whose field bad, if any,
\* is text that is neither a date nor a number.
csvRow(n, d, c, bad) ==
    [k \in 1..n |->
        IF k = bad THEN field("text", 0)
        ELSE IF k = 1 THEN field("date", d)
        ELSE IF k = 6 THEN field("int", 10 * c)
        ELSE IF k = 7 THEN field("float", c)
        ELSE field("float", c)]

\* The rows of a response of n-field records: whole rows, rows with one bad
\* field, rows with a volume that has a fraction, rows one field short.
CsvRows(n) ==
    {csvRow(n, d, c, 0) : d \in 1..2, c \in 1..2}
        \cup {csvRow(n, 1, 1, bad) : bad \in 1..n}
        \cup {[csvRow(n, 1, 1, 0) EXCEPT ![6] = field("float", 1)]}
        \cup {csvRow(n - 1, 1, 1, 0)}

csvHeader(n) == [k \in 1..n |-> field("text", 0)]

\* The responses: nothing at all, or a header of the provider's number of
\* fields or one field fewer, and up to n rows.
CsvBodies(fields, n) ==
    {<<>>} \cup
    {<<header>> \o records :
        header \in {csvHeader(fields), csvHeader(fields - 1)},
        records \in SeqsUpTo(CsvRows(fields), n)}

InitFetch ==
    /\ IngestAtRest
    /\ ProgramAtRest
    /\ call = ""
    /\ \E provider \in {"google", "yahoo"} :
          \E body \in CsvBodies(recordLength(provider), MaxRecords) :
             arg = [provider |-> provider, body |-> body]
    /\ ret = <<>>
    /\ ClockAtRest

\* src/ponzi.go:602-608: the goroutine of a symbol fetches its history and
\* sends the sessions it got, nil after an error, on the symbol's channel.
CallGetTradingSessions ==
    /\ call = ""
    /\ call' = "getTradingSessions"
    /\ ret' = getTradingSessions(arg.provider, arg.body)
    /\ tss' = ret'.tss
    /\ UNCHANGED <<rows, sts, ipc, boardVars, uiVars, cycleVars, runVars, saves, config,
                   logged, arg, symbolOffset, sizeVars, clockVars>>

NextFetch == CallGetTradingSessions

SpecFetch == InitFetch /\ [][NextFetch]_vars

\* The fields of a row that the code parses are a date, four numbers and an
\* integer.
WholeRow(record) ==
    /\ record[1].kind = "date"
    /\ \A k \in 2..5 : record[k].kind \in {"int", "float"}
    /\ record[6].kind = "int"

\* A response has a bad row when a record has not the provider's number of
\* fields or a data row has a field that does not parse.
HasBadRow(provider, body) ==
    \E i \in 1..Len(body) :
        \/ Len(body[i]) # recordLength(provider)
        \/ i > 1 /\ ~WholeRow(body[i])

\* C33: a history fetch of a response with a row of the wrong number of
\* fields, or with a date or a number that does not parse, returns an error
\* and no session, and none is sent on to the board; a response of a header
\* and no rows returns no session and no error.
C33_FetchIsAllOrNothing ==
    call = "getTradingSessions" =>
        /\ HasBadRow(arg.provider, arg.body) =>
              /\ ret.err # "nil"
              /\ ret.tss = <<>>
              /\ tss = <<>>
        /\ (Len(arg.body) = 1 /\ ~HasBadRow(arg.provider, arg.body)) =>
              /\ ret.err = "nil"
              /\ ret.tss = <<>>
        /\ ~HasBadRow(arg.provider, arg.body) =>
              /\ ret.err = "nil"
              /\ Len(ret.tss) = Len(arg.body) - (IF arg.body = <<>> THEN 0 ELSE 1)

\* A whole row followed by a row whose close does not parse: the fetch fails
\* and the first row is not returned.
C33_Witness ==
    /\ call = "getTradingSessions"
    /\ Len(arg.body) = 3
    /\ \A i \in 1..3 : Len(arg.body[i]) = recordLength(arg.provider)
    /\ WholeRow(arg.body[2])
    /\ arg.body[3][5].kind = "text"
    /\ ret.err = "syntax"
    /\ tss = <<>>

\* A header alone: no session, no error.
C33_WitnessHeaderOnly ==
    /\ call = "getTradingSessions"
    /\ Len(arg.body) = 1
    /\ ret = [tss |-> <<>>, err |-> "nil"]

\* C34: in every frame, for every height of the terminal and every number of
\* rows, the scroll offset after the adjustment is at least 0 and at most the
\* number of rows, so the slice of the rows from the offset on is inside the
\* list.
C34_OffsetWithinRows ==
    [][Paint => (0 <= symbolOffset' /\ symbolOffset' <= Len(stocks))]_vars

(***************************************************************************)
(* The threads, the goroutines and the lock together, under SpecRunFair.   *)
(***************************************************************************)

\* src/ponzi.go:339-349: a timer has fired and the timer goroutine calls
\* refreshStockData, for the histories or for the live quotes only, while the
\* UI thread is about to render a list of one row or of none.
InitThreads ==
    /\ IngestAtRest
    /\ refreshTime = 0
    /\ tradingDates = <<>>
    /\ stocks \in {<<>>, <<stock("A", NoMap)>>}
    /\ inputSymbol = ""
    /\ selectedIndex = 0
    /\ pc = [p \in Procs |-> IF p = "timer" THEN "call" ELSE "render"]
    /\ oneSymbol = [p \in Procs |-> ""]
    /\ onlyRealTimeData \in {[p \in Procs |-> p = "timer" /\ live] : live \in BOOLEAN}
    /\ symbols = [p \in Procs |-> <<>>]
    /\ dates = [p \in Procs |-> <<>>]
    /\ tsm = [p \in Procs |-> [s \in Symbols |-> NoMap]]
    /\ rds = [p \in Procs |-> <<>>]
    /\ writer = "none"
    /\ readers = {}
    /\ scm = [p \in Procs |-> [s \in Symbols |-> "off"]]
    /\ rc = [p \in Procs |-> "off"]
    /\ ich = [p \in Procs |-> "off"]
    /\ cur = [p \in Procs |-> ""]
    /\ im = [p \in Procs |-> 0]
    /\ got = [p \in Procs |-> [c \in Channels |-> <<>>]]
    /\ indices = 0
    /\ stable = board
    /\ events = MaxEvents - 1
    /\ SaveAtRest
    /\ ViewAtRest
    /\ CallAtRest
    /\ ClockAtRest

NextThreads ==
    \/ Events
    \/ Sections
    \/ \E p \in Procs : Locks(p) \/ Steps(p)

SpecThreads == InitThreads /\ [][NextThreads]_vars

SpecThreadsFair == SpecThreads /\ Fairness

\* The state of channel c of thread p's call.
ChannelOf(p, c) ==
    IF c = "rc" THEN rc[p] ELSE IF c = "ich" THEN ich[p] ELSE scm[p][c]

\* Thread p has called sd.RLock() or sd.Lock() and the call has not returned:
\* src/ponzi.go:371, 615, 648 and 692.
RequestsLock(p) ==
    \/ pc[p] = "call" /\ oneSymbol[p] = ""
    \/ pc[p] \in {"rlockDates", "lock"}
    \/ p = "ui" /\ pc[p] = "render"

\* Thread p is about to call sd.Lock() in a key handler (src/ponzi.go:505,
\* 521, 537, 553), or calls a lock in RequestsLock.
AboutToLock(p) == RequestsLock(p) \/ (p = "ui" /\ pc[p] = "poll")

\* Thread p waits for a value of a channel: src/ponzi.go:658, 668 and
\* part_002:820.
Receiving(p) == pc[p] \in {"range", "recvIndex"}

\* C35: no thread asks for the lock of the board while it holds it; outside
\* a call of refreshStockData no goroutine of the call is left with its send
\* to do; the send of every goroutine launched is received; every call of
\* RLock or Lock returns; and a thread that waits for a channel gets its
\* value, whether the calls of the two threads overlap, the list is empty or
\* a live-only call closed its history channels.
C35_NoDeadlockNoLeak ==
    /\ [](\A p \in Procs : AboutToLock(p) => ~HoldsLock(p))
    /\ [](\A p \in Procs : \A c \in Channels :
            pc[p] \in {"boot", "idle", "poll", "render", "paint", "ret"} =>
                ChannelOf(p, c) # "fetching")
    /\ \A p \in Procs : \A c \in Channels :
            (ChannelOf(p, c) = "fetching") ~> (ChannelOf(p, c) = "done")
    /\ \A p \in Procs : RequestsLock(p) ~> HoldsLock(p)
    /\ \A p \in Procs : Receiving(p) ~> (pc[p] = "lock")

\* The timer's live-only call has read a closed history channel and committed
\* while the call of the UI thread waits for its channels.
C35_Witness ==
    /\ pc["timer"] = "ret"
    /\ onlyRealTimeData["timer"]
    /\ \E s \in Symbols : scm["timer"][s] = "closed" /\ got["timer"][s] = <<"nil">>
    /\ Receiving("ui")

\* A call over the empty list has committed: its quote channel was closed
\* without a send.
C35_WitnessEmptyList ==
    \E p \in Procs :
        /\ pc[p] = "ret"
        /\ symbols[p] = <<>>
        /\ rc[p] = "closed"
        /\ ich[p] = "done"

(***************************************************************************)
(* The config file (src/config.go, src/unnamed/part_004).  In SpecConfig   *)
(* a symbol is the sequence of the bytes of its Go string, and the file is *)
(* missing, unreadable, or a text: the sequence of the tokens "{" and "}"  *)
(* of a document, the strings between them (each with the sequence of its  *)
(* characters) and text that is no JSON.  The two versions of the source   *)
(* differ in how saveConfig opens the file and in what loadConfig makes of *)
(* an empty file.                                                          *)
(***************************************************************************)

Versions == {"config.go", "part_004"}

\* A token of the text of the file, s the characters of a string.
token(t, s) == [t |-> t, s |-> s]

\* The file of the user: missing, unreadable, or a text.
NoFile == [state |-> "missing", text |-> <<>>]
LockedFile == [state |-> "unreadable", text |-> <<>>]
textFile(text) == [state |-> "text", text |-> text]

\* The UTF-8 bytes of a character, U+FFFD included.
utf8(r) == IF r = RuneError THEN <<239, 191, 189>> ELSE EncodeRune(r)

RECURSIVE utf8All(_)
utf8All(rs) == IF rs = <<>> THEN <<>> ELSE utf8(Head(rs)) \o utf8All(Tail(rs))

\* json.Encoder.Encode(&cfg) (src/config.go:57): the document of the list;
\* a string is written as its characters, a byte that is no UTF-8 as U+FFFD.
Encode(cfg) ==
    <<token("{", <<>>)>>
        \o [i \in 1..Len(cfg) |-> token("string", DecodeRunes(cfg[i]))]
        \o <<token("}", <<>>)>>

\* The place of the first "}" of a text from the place i on, 0 if none.
RECURSIVE closing(_, _)
closing(text, i) ==
    IF i > Len(text) THEN 0
    ELSE IF text[i].t = "}" THEN i
    ELSE closing(text, i + 1)

\* json.Decoder.Decode(&cfg) (src/config.go:38-41): the first document of
\* the text; what follows it is not read.
Decode(text) ==
    IF text = <<>> THEN [cfg |-> <<>>, err |-> "EOF"]
    ELSE IF text[1].t # "{" THEN [cfg |-> <<>>, err |-> "syntax"]
    ELSE LET k == closing(text, 2)
         IN  IF k = 0 THEN [cfg |-> <<>>, err |-> "unexpected EOF"]
             ELSE IF \E i \in 2..(k - 1) : text[i].t # "string"
                  THEN [cfg |-> <<>>, err |-> "syntax"]
             ELSE [cfg |-> [i \in 1..(k - 2) |-> utf8All(text[i + 1].s)], err |-> "nil"]

\* src/config.go:22-43 and part_004:27-53 loadConfig: a missing file is the
\* empty config; part_004 takes the io.EOF of an empty file for no error.
loadConfig(version, file) ==
    IF file.state = "missing" THEN [cfg |-> <<>>, err |-> "nil"]
    ELSE IF file.state = "unreadable" THEN [cfg |-> <<>>, err |-> "permission"]
    ELSE LET d == Decode(file.text)
         IN  IF d.err = "nil" \/ (version = "part_004" /\ d.err = "EOF")
             THEN [cfg |-> d.cfg, err |-> "nil"]
             ELSE [cfg |-> <<>>, err |-> d.err]

\* src/config.go:45-58 and part_004:55-72 saveConfig: config.go opens with
\* O_WRONLY, which makes no file and writes over the head of the old text;
\* part_004 opens with O_CREATE|O_TRUNC|O_WRONLY.
saveConfig(version, file, cfg) ==
    IF file.state = "unreadable" THEN [file |-> file, err |-> "permission"]
    ELSE IF version = "part_004" THEN [file |-> textFile(Encode(cfg)), err |-> "nil"]
    ELSE IF file.state = "missing" THEN [file |-> file, err |-> "not exist"]
    ELSE [file |-> textFile(Encode(cfg) \o
                            SubSeq(file.text, Len(Encode(cfg)) + 1, Len(file.text))),
          err |-> "nil"]

\* The symbols that the keys can leave in the buffer for Enter: at most n
\* characters typed, and Backspace after them.
EnteredSymbols(n) ==
    (Typed(n) \cup {Front(b) : b \in Typed(n) \ {<<>>}}) \ {<<>>}

\* The files of the user: none, one that cannot be opened, an empty one, text
\* that is no JSON, a document cut short, and saved lists.
ConfigFiles ==
    {NoFile, LockedFile, textFile(<<>>), textFile(<<token("x", <<>>)>>),
     textFile(<<token("{", <<>>), token("string", <<65>>)>>)}
        \cup {textFile(Encode(cfg)) : cfg \in SeqsUpTo({<<65>>, <<66>>}, MaxListed + 1)}

InitConfig ==
    /\ IngestAtRest
    /\ ProgramAtRest
    /\ call = ""
    /\ \E version \in Versions, file \in ConfigFiles :
          \E cfg \in SeqsUpTo(EnteredSymbols(MaxTyped), MaxListed) :
             arg = [version |-> version, file |-> file, cfg |-> cfg]
    /\ ret = <<>>
    /\ ClockAtRest

\* src/ponzi.go:727-739: the save goroutine writes the list arg.cfg.
CallSaveConfig ==
    /\ call = ""
    /\ call' = "saveConfig"
    /\ ret' = saveConfig(arg.version, arg.file, arg.cfg)
    /\ UNCHANGED <<ingestVars, boardVars, uiVars, cycleVars, runVars, saves, config,
                   logged, arg, symbolOffset, sizeVars, clockVars>>

\* src/ponzi.go:297-307: the program starts, on the user's file or on the
\* file that the save left: log.Fatalf on an error of loadConfig, else the
\* rows of the symbols of the config.
CallLoadConfig ==
    /\ call \in {"", "saveConfig"}
    /\ call' = IF call = "" THEN "loadConfig" ELSE "saveThenLoad"
    /\ LET file == IF call = "" THEN arg.file ELSE ret.file
           loaded == loadConfig(arg.version, file)
       IN  /\ ret' = [cfg |-> loaded.cfg, err |-> loaded.err,
                      saved |-> (call = "saveConfig" /\ ret.err = "nil")]
           /\ stocks' = [i \in 1..Len(loaded.cfg) |-> stock(loaded.cfg[i], NoMap)]
           /\ pc' = IF loaded.err = "nil" THEN pc ELSE [p \in Procs |-> "exit"]
    /\ UNCHANGED <<ingestVars, refreshTime, tradingDates, uiVars, oneSymbol,
                   onlyRealTimeData, symbols, dates, tsm, rds, runVars, saves, config,
                   logged, arg, symbolOffset, sizeVars, clockVars>>

NextConfig == CallSaveConfig \/ CallLoadConfig

SpecConfig == InitConfig /\ [][NextConfig]_vars

\* A text that is not empty and does not begin with a whole document.
Undecodable(file) ==
    /\ file.state = "text"
    /\ file.text # <<>>
    /\ Decode(file.text).err # "nil"

\* C36: at startup a missing config file gives the empty list and no error;
\* a file that cannot be opened or decoded gives an error and the program
\* exits; the board starts with the symbols of the config in their order and
\* no session; and a list that was saved is the list that is loaded.
C36_ConfigLoadsAndRoundTrips ==
    /\ call = "loadConfig" =>
        /\ arg.file = NoFile =>
              /\ ret.err = "nil"
              /\ ret.cfg = <<>>
              /\ stocks = <<>>
        /\ (arg.file = LockedFile \/ Undecodable(arg.file)) =>
              /\ ret.err # "nil"
              /\ pc["ui"] = "exit"
        /\ ret.err = "nil" =>
              /\ pc["ui"] # "exit"
              /\ SymbolsOf(stocks) = ret.cfg
              /\ \A i \in 1..Len(stocks) : stocks[i].tradingSessionMap = NoMap
        /\ (arg.file.state = "text" /\ Decode(arg.file.text).err = "nil") =>
              ret.cfg = Decode(arg.file.text).cfg
    /\ (call = "saveThenLoad" /\ ret.saved) =>
        /\ ret.err = "nil"
        /\ ret.cfg = arg.cfg
        /\ SymbolsOf(stocks) = arg.cfg

====
